---- MODULE Spec2Model ----
(***************************************************************************)
(* Gmail Pub/Sub handler: TransactionAutomationService.handleEvent and     *)
(* processGmailHistory (src/index.js), the deduplication ledger            *)
(* checkAndMarkMessageProcessed (src/README.md, deduplication.js section), *)
(* and the remote services they talk to (Firestore checkpoint document,    *)
(* Firestore processed_messages collection, Gmail history log).            *)
(* Spec is the system of concurrent handleEvent invocations; TxnSpec is    *)
(* one handleTransaction call on every message text; ReconSpec is one      *)
(* processCalendarEvents call on every calendar. MailboxSpec is Spec with  *)
(* notifications for two mailboxes; WindowSpec is the month window of      *)
(* processCalendarEvents; DriveSpec is uploadToDrive called repeatedly;    *)
(* PdfSpec is one SunrunClient.extractBillDetailsFromPdf call; GetBillSpec *)
(* is one SunrunClient.getBillFromMessage call inside the Sunrun rule.     *)
(* BatchSpec is the message loop of processGmailHistory over one history   *)
(* list; DedupSpec is the processed_messages document under a clock;       *)
(* EmailBodySpec is one extractEmailBody call; GridSpec is one memoised    *)
(* NationalGridClient used by two callers; UploadsSpec is two uploadToDrive*)
(* calls in flight at once.                                                *)
(*                                                                         *)
(* History positions are decimal strings, as the payload and the profile   *)
(* carry them ({"emailAddress":"example@gmail.com","historyId":"123456"}). *)
(* A string is a sequence of digits; comparisons between two positions are *)
(* JavaScript string comparisons.                                          *)
(***************************************************************************)
EXTENDS Integers, Sequences, FiniteSets, TLC

\* ---------------------------------------------------------------- bounds
NumInv == 2        \* handleEvent invocations (notification deliveries)
MaxLog == 2        \* history records appended to the mailbox log
HeadStart == 8     \* mailbox history position before the first record

Invs == 1..NumInv
Msgs == 1..MaxLog
Emails == {"me", "other"}

\* the mailbox whose notifications Spec looks at; MailboxSpec looks at both
Watched == {"me"}

\* what a history record carries: a message matching a calendar rule, a
\* message matching an archive (Drive) rule, a message matching no rule, or
\* a record without messagesAdded
Kinds == {"cal", "arch", "none", "nomsg"}

VARIABLES
    log,          \* Gmail history: log[k] is the record at position HeadStart + k
    ledger,       \* processed_messages: set of message ids with a document
    checkpoint,   \* FIRESTORE_COLLECTION: email -> lastHistoryId (NoId = no document)
    inv,          \* per invocation: control state and locals of handleEvent
    trueCalls,    \* history: per message, calls of checkAndMarkMessageProcessed that returned true
    falseCalls,   \* history: per message, calls that returned false
    effects,      \* history: per message, handlings that issued a calendar/Drive mutation call
    status,       \* history: per message, how its handling ended
    unread,       \* Gmail: messages that carry the UNREAD label
    txn,          \* one handleTransaction call: its message and its result
    recon,        \* one processCalendarEvents call: the calendar, its locals, its calls
    win,          \* one computation of the window processCalendarEvents lists
    drive,        \* Google Drive and the uploadToDrive calls made one after another
    pdf,          \* one extractBillDetailsFromPdf call: the text, the parser, the result
    getBill,      \* one getBillFromMessage call and the Sunrun rule around it
    batch,        \* one processGmailHistory loop over a listed history, and the write after it
    dedup,        \* the clock and the documents checkAndMarkMessageProcessed creates
    emailBody,    \* one extractEmailBody call: the message and what it returns
    grid,         \* one NationalGridClient and the calls made to it
    uploads       \* Google Drive and two uploadToDrive calls running at once

vars == <<log, ledger, checkpoint, inv, trueCalls, falseCalls, effects, status, unread,
          txn, recon, win, drive, pdf, getBill, batch, dedup, emailBody, grid, uploads>>

\* the variables of handleEvent and of the services it shares
eventVars == <<log, ledger, checkpoint, inv, trueCalls, falseCalls, effects, status, unread>>

\* the variables of the calls looked at on their own
callVars == <<txn, recon, win, drive, pdf, getBill, batch, dedup, emailBody, grid, uploads>>

\* the same, without the variable of the call a specification is about
exceptTxn == <<eventVars, recon, win, drive, pdf, getBill, batch, dedup, emailBody, grid, uploads>>

exceptRecon == <<eventVars, txn, win, drive, pdf, getBill, batch, dedup, emailBody, grid, uploads>>

exceptWin == <<eventVars, txn, recon, drive, pdf, getBill, batch, dedup, emailBody, grid, uploads>>

exceptDrive == <<eventVars, txn, recon, win, pdf, getBill, batch, dedup, emailBody, grid, uploads>>

exceptPdf == <<eventVars, txn, recon, win, drive, getBill, batch, dedup, emailBody, grid, uploads>>

exceptGetBill == <<eventVars, txn, recon, win, drive, pdf, batch, dedup, emailBody, grid, uploads>>

exceptBatch == <<eventVars, txn, recon, win, drive, pdf, getBill, dedup, emailBody, grid, uploads>>

exceptDedup == <<eventVars, txn, recon, win, drive, pdf, getBill, batch, emailBody, grid, uploads>>

exceptEmailBody == <<eventVars, txn, recon, win, drive, pdf, getBill, batch, dedup, grid, uploads>>

exceptGrid == <<eventVars, txn, recon, win, drive, pdf, getBill, batch, dedup, emailBody, uploads>>

exceptUploads == <<eventVars, txn, recon, win, drive, pdf, getBill, batch, dedup, emailBody, grid>>

\* no call is being looked at
NoCall == [stage |-> "none"]

\* every call variable but the named one is idle
OtherCallsIdle(x) ==
    /\ IF x = "txn" THEN TRUE ELSE txn = NoCall
    /\ IF x = "recon" THEN TRUE ELSE recon = NoCall
    /\ IF x = "win" THEN TRUE ELSE win = NoCall
    /\ IF x = "drive" THEN TRUE ELSE drive = NoCall
    /\ IF x = "pdf" THEN TRUE ELSE pdf = NoCall
    /\ IF x = "getBill" THEN TRUE ELSE getBill = NoCall
    /\ IF x = "batch" THEN TRUE ELSE batch = NoCall
    /\ IF x = "dedup" THEN TRUE ELSE dedup = NoCall
    /\ IF x = "emailBody" THEN TRUE ELSE emailBody = NoCall
    /\ IF x = "grid" THEN TRUE ELSE grid = NoCall
    /\ IF x = "uploads" THEN TRUE ELSE uploads = NoCall

\* ------------------------------------------------------ decimal strings
NoId == <<>>      \* null / absent lastHistoryId

RECURSIVE Dec(_)
\* decimal string of a position, as JSON carries it
Dec(n) == IF n < 10 THEN <<n>> ELSE Append(Dec(n \div 10), n % 10)

RECURSIVE Num(_)
\* the number a decimal string denotes (what the Gmail server reads)
Num(s) == IF Len(s) = 0 THEN 0
          ELSE 10 * Num(SubSeq(s, 1, Len(s) - 1)) + s[Len(s)]

RECURSIVE StrLess(_, _)
\* JavaScript a < b on two strings: lexicographic by code unit
StrLess(a, b) ==
    IF Len(b) = 0 THEN FALSE
    ELSE IF Len(a) = 0 THEN TRUE
    ELSE IF a[1] # b[1] THEN a[1] < b[1]
    ELSE StrLess(Tail(a), Tail(b))

\* JavaScript a <= b on two strings
StrLeq(a, b) == a = b \/ StrLess(a, b)

\* ------------------------------------------------------ the mailbox
\* current history position of the mailbox (users.getProfile().historyId)
MailboxHead == HeadStart + Len(log)

\* position of message m
PosOf(m) == HeadStart + m

RECURSIVE Flatten(_, _)
\* history.list: records after the start position, flattened to the ids of
\* their messagesAdded in order (a record without messagesAdded adds none)
Flatten(k, upto) ==
    IF k > upto THEN <<>>
    ELSE (IF log[k] = "nomsg" THEN <<>> ELSE <<k>>) \o Flatten(k + 1, upto)

\* index of the first record after startHistoryId
FirstAfter(startId) ==
    IF Num(startId) < HeadStart THEN 1 ELSE Num(startId) - HeadStart + 1

\* res.data.history is present iff some record lies after the start
HasHistory(startId) == FirstAfter(startId) <= Len(log)

MessagesSince(startId) == Flatten(FirstAfter(startId), Len(log))

\* ------------------------------------------------------ the ledger
\* faulty variant: the write is a set(), which overwrites an existing document
DocCreate_Overwrites(m, fault) ==
    IF fault THEN "error" ELSE "ok"

\* docRef.create on processed_messages/<id>: "ok", "exists" (code 6) or,
\* on a storage fault, "error"
DocCreate(m, fault) ==
    IF fault THEN "error"
    ELSE IF m \in ledger THEN "exists"
    ELSE "ok"

\* faulty variant: the already-exists rejection is swallowed and reported as new
checkAndMarkMessageProcessed_SwallowsExists(createRes) ==
    IF createRes = "error" THEN "throw" ELSE "true"

\* faulty variant: a storage failure is reported as a duplicate
checkAndMarkMessageProcessed_ErrorIsDuplicate(createRes) ==
    IF createRes = "ok" THEN "true" ELSE "false"

\* checkAndMarkMessageProcessed: what the call yields for a create result
checkAndMarkMessageProcessed(createRes) ==
    IF createRes = "ok" THEN "true"
    ELSE IF createRes = "exists" THEN "false"
    ELSE "throw"

\* ------------------------------------------------------ handleEvent
\* faulty variant: the check lets a notification equal to the checkpoint through
IsStale_Strict(newHistoryId, lastHistoryId) ==
    lastHistoryId # NoId /\ StrLess(newHistoryId, lastHistoryId)

\* staleness check of handleEvent
IsStale(newHistoryId, lastHistoryId) ==
    lastHistoryId # NoId /\ StrLeq(newHistoryId, lastHistoryId)

\* faulty variant: the stored position is the start even when there is none
StartId_Stored(newHistoryId, lastHistoryId) == lastHistoryId

\* startId = lastHistoryId || newHistoryId
StartId(newHistoryId, lastHistoryId) ==
    IF lastHistoryId # NoId THEN lastHistoryId ELSE newHistoryId

\* HTTP status of the history.list response: success, start position
\* invalid, any other failure
ListStatuses == {200, 400, 500}

\* apiErr?.response?.status === 400
IsInvalidHistoryId(st) == st = 400

\* the value the success path persists
AdvanceValue(i) == inv[i].newHistoryId

\* faulty variant: the reset persists the notification's position, not the head
ResetValue_Notification(i) == inv[i].newHistoryId

\* the value the baseline reset persists
ResetValue(i) == inv[i].resetHistoryId

\* what the event of a notification carries: no message data, data that is
\* not JSON, or a well-formed {emailAddress, historyId}
Payloads == {"nodata", "notjson", "ok"}

\* !message?.data
HasNoData(p) == p = "nodata"

\* faulty variant: the decoded text is used without being parsed
ParsesAsJson_Unchecked(p) == TRUE

\* JSON.parse(dataStr) returns (it throws a SyntaxError otherwise)
ParsesAsJson(p) == p = "ok"

\* the locals and the call history of one handleEvent invocation:
\*   reads     docRef.get() calls            wrote    values of docRef.set() calls
\*   hist      res.data.history present?     listed   message ids of the listed history
\*   tried     ids whose claim was called    claimed  ids the claim returned true for
\*   dups      ids it returned false for     creates  <<create result, claim result>> pairs
\*   fetched   ids messages.get was called for
\*   muts      ids with a calendar/Drive mutation call
\*   marked    ids messages.modify was called for
\*   failed    ids whose loop body ended in the catch
IdleInv == [pc |-> "idle", payload |-> "none", email |-> "me", newHistoryId |-> NoId,
            lastHistoryId |-> NoId, startId |-> NoId, queue |-> <<>>,
            resetHistoryId |-> NoId, outcome |-> "none",
            listStatus |-> 0, headSeen |-> 0, reads |-> 0,
            hist |-> "unset", listed |-> <<>>, tried |-> {}, creates |-> {},
            claimed |-> {}, dups |-> {}, failed |-> {}, fetched |-> {},
            muts |-> {}, marked |-> {}, wrote |-> <<>>, after |-> {}]

\* The checkpoint document outlives the process: at start it is absent
\* (fresh deployment) or holds the position the mailbox had reached.
InitFor(emails) ==
    /\ log = <<>>
    /\ ledger = {}
    /\ checkpoint \in {c \in [Emails -> {NoId, Dec(HeadStart)}] :
                          \A e \in Emails \ emails : c[e] = NoId}
    /\ inv = [i \in Invs |-> IdleInv]
    /\ trueCalls = [m \in Msgs |-> 0]
    /\ falseCalls = [m \in Msgs |-> 0]
    /\ effects = [m \in Msgs |-> 0]
    /\ status = [m \in Msgs |-> "new"]
    /\ unread = {}
    /\ OtherCallsIdle("")

Init == InitFor(Watched)

\* handleEvent is not running and the mailbox is empty
EventsIdle ==
    /\ log = <<>> /\ ledger = {} /\ checkpoint = [e \in Emails |-> NoId]
    /\ inv = [i \in Invs |-> IdleInv]
    /\ trueCalls = [m \in Msgs |-> 0] /\ falseCalls = [m \in Msgs |-> 0]
    /\ effects = [m \in Msgs |-> 0] /\ status = [m \in Msgs |-> "new"]
    /\ unread = {}

\* a change in the mailbox appends one history record
MailArrives(k) ==
    /\ Len(log) < MaxLog
    /\ log' = Append(log, k)
    /\ unread' = IF k = "nomsg" THEN unread ELSE unread \cup {Len(log) + 1}
    /\ UNCHANGED <<ledger, checkpoint, inv, trueCalls, falseCalls, effects, status>>
    /\ UNCHANGED callVars

Finish(i, how) == [inv EXCEPT ![i].pc = "done", ![i].outcome = how]

\* faulty variant: the outer handler lets the error reach the caller
OuterCatch_Rethrows(i) == Finish(i, "thrown")

\* handleEvent, outer catch: the error is logged, the invocation resolves
OuterCatch(i) == Finish(i, "error")

\* faulty variant: the handler of the API error rethrows what is not a 400
ApiErrorCatch_Rethrows(i) == Finish(i, "thrown")

\* handleEvent, inner catch, else branch: an error other than status 400 of
\* processGmailHistory or of the checkpoint write is logged
ApiErrorCatch(i) == Finish(i, "apierror")

\* handleEvent, decode: the event's message data is checked, decoded from
\* Base64 and parsed; a well-formed payload is {emailAddress, historyId} of
\* a notification the mailbox has published
Start(i, p, e, n) ==
    /\ inv[i].pc = "idle"
    /\ n \in (HeadStart + 1)..MailboxHead
    /\ p = "ok" \/ n = HeadStart + 1      \* only a parsed payload has fields
    /\ LET next == IF HasNoData(p) THEN Finish(i, "nodata")
                   ELSE IF ~ParsesAsJson(p) THEN OuterCatch(i)
                   ELSE [inv EXCEPT ![i].pc = "read", ![i].email = e,
                                    ![i].newHistoryId = Dec(n)]
       IN inv' = [next EXCEPT ![i].payload = p,
                              ![i].after = {j \in Invs : inv[j].pc = "done"}]
    /\ UNCHANGED <<log, ledger, checkpoint, trueCalls, falseCalls, effects, status, unread>>
    /\ UNCHANGED callVars

\* handleEvent: docRef.get(), staleness check, choice of startId
ReadCheckpoint(i, fault) ==
    /\ inv[i].pc = "read"
    /\ LET last == checkpoint[inv[i].email]
           new == inv[i].newHistoryId
           next == IF fault THEN OuterCatch(i)
                   ELSE IF IsStale(new, last)
                        THEN [Finish(i, "stale") EXCEPT ![i].lastHistoryId = last]
                   ELSE [inv EXCEPT ![i].pc = "list", ![i].lastHistoryId = last,
                                    ![i].startId = StartId(new, last)]
       IN inv' = [next EXCEPT ![i].reads = @ + 1]
    /\ UNCHANGED <<log, ledger, checkpoint, trueCalls, falseCalls, effects, status, unread>>
    /\ UNCHANGED callVars

\* faulty variant: the checkpoint is written whatever processGmailHistory returned
AfterProcess_AlwaysWrites(i, success) == [inv EXCEPT ![i].pc = "write"]

\* handleEvent after processGmailHistory returned: false ends the
\* invocation ("No changes since last check"), true goes on to docRef.set
AfterProcess(i, success) ==
    IF success THEN [inv EXCEPT ![i].pc = "write"] ELSE Finish(i, "nochange")

\* processGmailHistory: gmail.users.history.list, and where its result or
\* its error takes handleEvent
HistoryList(i, st) ==
    /\ inv[i].pc = "list"
    /\ LET q == MessagesSince(inv[i].startId)
           next ==
            IF st # 200
            THEN IF IsInvalidHistoryId(st)
                 THEN [inv EXCEPT ![i].pc = "profile"]
                 ELSE ApiErrorCatch(i)
            ELSE IF ~HasHistory(inv[i].startId)
                 THEN [AfterProcess(i, FALSE) EXCEPT ![i].hist = "absent"]
            ELSE IF q = <<>>
                 THEN [AfterProcess(i, TRUE) EXCEPT ![i].hist = "present"]
            ELSE [inv EXCEPT ![i].pc = "claim", ![i].hist = "present",
                             ![i].queue = q, ![i].listed = q]
       IN inv' = [next EXCEPT ![i].listStatus = st, ![i].headSeen = MailboxHead]
    /\ UNCHANGED <<log, ledger, checkpoint, trueCalls, falseCalls, effects, status, unread>>
    /\ UNCHANGED callVars

\* faulty variant: the loop is left after the message it stands at
NextMessage_LeavesLoop(i) == "write"

\* control state after the loop body ends for the head of the queue
NextMessage(i) == IF Len(inv[i].queue) > 1 THEN "claim" ELSE "write"

Bump(f, m) == [f EXCEPT ![m] = IF @ < 2 THEN @ + 1 ELSE @]

\* faulty variant: an error of one message leaves the loop and reaches handleEvent
LoopCatch_Aborts(i) ==
    [ApiErrorCatch(i) EXCEPT ![i].failed = @ \cup {Head(inv[i].queue)}]

\* processGmailHistory, catch of the loop body: a missing message (code 404)
\* and any other error are logged and the loop continues with the next message
LoopCatch(i) ==
    [inv EXCEPT ![i].pc = NextMessage(i), ![i].queue = Tail(@),
                ![i].failed = @ \cup {Head(inv[i].queue)}]

\* processGmailHistory: the claim of the next message; a call that throws is
\* caught by the loop's catch, which goes on with the next message
Claim(i, fault) ==
    /\ inv[i].pc = "claim"
    /\ LET m == Head(inv[i].queue)
           r == checkAndMarkMessageProcessed(DocCreate(m, fault))
       IN /\ ledger' = IF DocCreate(m, fault) = "ok" THEN ledger \cup {m} ELSE ledger
          /\ trueCalls' = IF r = "true" THEN Bump(trueCalls, m) ELSE trueCalls
          /\ falseCalls' = IF r = "false" THEN Bump(falseCalls, m) ELSE falseCalls
          /\ status' = IF r = "true" THEN [status EXCEPT ![m] = "claimed"] ELSE status
          /\ LET next == IF r = "true"
                         THEN [inv EXCEPT ![i].pc = "handle", ![i].claimed = @ \cup {m}]
                         ELSE IF r = "false"
                         THEN [inv EXCEPT ![i].pc = NextMessage(i), ![i].queue = Tail(@),
                                          ![i].dups = @ \cup {m}]
                         ELSE LoopCatch(i)
             IN inv' = [next EXCEPT ![i].tried = @ \cup {m},
                                    ![i].creates = @ \cup {<<DocCreate(m, fault), r>>}]
    /\ UNCHANGED <<log, checkpoint, effects, unread>>
    /\ UNCHANGED callVars

\* how the dispatched effect of a matching message can end:
\*   applied  its calendar/Drive mutation calls were issued and succeeded
\*   partial  a mutation call was issued, a later call of the effect failed
\*   absent   nothing to act on (no calendar, no matching event, no attachment)
\*   failed   a call of the effect failed before any mutation call
\* processCalendarEvents and the archive rules catch the errors of their
\* calls: none of these endings raises into the loop
EffectEndings == {"applied", "partial", "absent", "failed"}

\* faulty variant: every fetched message counts as processed
handleTransaction_AlwaysTrue(k, eff) == TRUE

\* handleTransaction: its boolean result for a message of kind k whose
\* effect ended as eff; the calendar rules return true whatever
\* processCalendarEvents returned, the archive rules only after the upload
handleTransaction(k, eff) ==
    IF k = "cal" THEN TRUE
    ELSE IF k = "arch" THEN eff = "applied"
    ELSE FALSE

\* processGmailHistory: fetch, classify, dispatch and mark read the claimed
\* message; getOk, eff and markOk are the outcomes of messages.get, of the
\* effect and of messages.modify
Handle(i, getOk, eff, markOk) ==
    /\ inv[i].pc = "handle"
    /\ LET m == Head(inv[i].queue)
           k == log[m]
           matched == getOk /\ k # "none"
           wasProcessed == getOk /\ handleTransaction(k, eff)
           mutated == matched /\ eff \in {"applied", "partial"}
           raised == ~getOk \/ (wasProcessed /\ ~markOk)
           next == IF raised THEN LoopCatch(i)
                   ELSE [inv EXCEPT ![i].pc = NextMessage(i), ![i].queue = Tail(@)]
       IN \* outcomes that are not consulted are fixed, not enumerated
          /\ getOk \/ (eff = "absent" /\ markOk)
          /\ matched \/ eff = "absent"
          /\ wasProcessed \/ markOk
          /\ effects' = IF mutated THEN Bump(effects, m) ELSE effects
          /\ status' = [status EXCEPT ![m] = IF ~getOk THEN "getfail"
                                            ELSE IF k = "none" THEN "nomatch"
                                            ELSE eff]
          /\ unread' = IF wasProcessed /\ markOk THEN unread \ {m} ELSE unread
          /\ inv' = [next EXCEPT ![i].fetched = @ \cup {m},
                                 ![i].muts = IF mutated THEN @ \cup {m} ELSE @,
                                 ![i].marked = IF wasProcessed THEN @ \cup {m} ELSE @]
    /\ UNCHANGED <<log, ledger, checkpoint, trueCalls, falseCalls>>
    /\ UNCHANGED callVars

\* handleEvent: docRef.set({lastHistoryId: newHistoryId}) after
\* processGmailHistory returned true
WriteCheckpoint(i, fault) ==
    /\ inv[i].pc = "write"
    /\ checkpoint' = IF fault THEN checkpoint
                     ELSE [checkpoint EXCEPT ![inv[i].email] = AdvanceValue(i)]
    /\ inv' = IF fault THEN ApiErrorCatch(i)
              ELSE [Finish(i, "ok") EXCEPT ![i].wrote = Append(@, AdvanceValue(i))]
    /\ UNCHANGED <<log, ledger, trueCalls, falseCalls, effects, status, unread>>
    /\ UNCHANGED callVars

\* handleEvent, baseline reset: gmail.users.getProfile
GetProfile(i, fault) ==
    /\ inv[i].pc = "profile"
    /\ inv' = IF fault THEN Finish(i, "resetfailed")
              ELSE [inv EXCEPT ![i].pc = "reset", ![i].resetHistoryId = Dec(MailboxHead)]
    /\ UNCHANGED <<log, ledger, checkpoint, trueCalls, falseCalls, effects, status, unread>>
    /\ UNCHANGED callVars

\* handleEvent, baseline reset: docRef.set({lastHistoryId: resetHistoryId})
ResetBaseline(i, fault) ==
    /\ inv[i].pc = "reset"
    /\ checkpoint' = IF fault THEN checkpoint
                     ELSE [checkpoint EXCEPT ![inv[i].email] = ResetValue(i)]
    /\ inv' = IF fault THEN Finish(i, "resetfailed")
              ELSE [Finish(i, "reset") EXCEPT ![i].wrote = Append(@, ResetValue(i))]
    /\ UNCHANGED <<log, ledger, trueCalls, falseCalls, effects, status, unread>>
    /\ UNCHANGED callVars

NextFor(emails) ==
    \/ \E k \in Kinds : MailArrives(k)
    \/ \E i \in Invs, p \in Payloads, e \in emails, n \in (HeadStart + 1)..(HeadStart + MaxLog) :
          Start(i, p, e, n)
    \/ \E i \in Invs, fault \in BOOLEAN : ReadCheckpoint(i, fault)
    \/ \E i \in Invs, st \in ListStatuses : HistoryList(i, st)
    \/ \E i \in Invs, fault \in BOOLEAN : Claim(i, fault)
    \/ \E i \in Invs, getOk \in BOOLEAN, eff \in EffectEndings, markOk \in BOOLEAN :
          Handle(i, getOk, eff, markOk)
    \/ \E i \in Invs, fault \in BOOLEAN : WriteCheckpoint(i, fault)
    \/ \E i \in Invs, fault \in BOOLEAN : GetProfile(i, fault)
    \/ \E i \in Invs, fault \in BOOLEAN : ResetBaseline(i, fault)

Next == NextFor(Watched)

Spec == Init /\ [][Next]_vars

\* notifications for two mailboxes (payload.emailAddress), handled by the
\* same deployment
MailboxSpec == InitFor(Emails) /\ [][NextFor(Emails)]_vars

\* ------------------------------------------------- handleTransaction
\* A text (From header, Subject header, decoded body) is described by the
\* phrases it contains, written in lower case (upper = FALSE) or in upper
\* case, and, for a subject, by the amount text that follows its "$".
MaxPhrases == 2     \* phrases of interest in a sender or a subject

SenderPhrases == {"nationalgridus.com", "sunrun.com", "capitalone.com",
                  "americanexpress.com", "chase.com"}

SubjectPhrases == {"national grid bill", "bill is ready", "sunrun bill",
                   "withdrawal notice",
                   "received your payment",
                   "your credit card payment is scheduled",
                   "you scheduled your mortgage payment",
                   "transaction with comcast / xfinity",
                   "transaction with spi*eversource"}

\* "from:...": text matched by /from:.*nationalgridus\.com/, /from:.*sunrun\.com/
BodyPhrases == {"from:nationalgridus.com", "from:sunrun.com",
                "att has initiated", "lowes has initiated",
                "eastern bank has initiated", "sunrun has initiated"}

Texts(phrases, n) ==
    [phrases : {ps \in SUBSET phrases : Cardinality(ps) <= n}, upper : BOOLEAN]

\* faulty variant: the text is matched as written
toLowerCase_AsWritten(t) == t

\* String.prototype.toLowerCase
toLowerCase(t) == [t EXCEPT !.upper = FALSE]

\* String.prototype.includes / RegExp.test with a lower-case needle:
\* case-sensitive
includes(t, phrase) == ~t.upper /\ phrase \in t.phrases

\* ---- the dollar amount of a subject
DigitChars == <<"0", "1", "2", "3", "4", "5", "6", "7", "8", "9">>
Digits == {DigitChars[k] : k \in 1..10}

DigitVal(c) == (CHOOSE k \in 1..10 : DigitChars[k] = c) - 1

\* the characters of a digit sequence
Chars(ds) == [k \in 1..Len(ds) |-> DigitChars[ds[k] + 1]]

\* dollars as an e-mail prints them, with or without a thousands separator
FormatDollars(dollars, commas) ==
    LET cs == Chars(Dec(dollars))
        n == Len(cs)
    IN IF commas /\ n > 3
       THEN SubSeq(cs, 1, n - 3) \o <<",">> \o SubSeq(cs, n - 2, n)
       ELSE cs

\* the text after "$": dollars and, unless cents is empty, "." and two digits
AmountText(dollars, cents, commas) ==
    FormatDollars(dollars, commas)
        \o (IF cents = <<>> THEN <<>> ELSE <<".">> \o Chars(cents))

RECURSIVE LeadLen(_)
\* length of the longest prefix matching [\d,]*
LeadLen(s) ==
    IF s # <<>> /\ Head(s) \in Digits \cup {","} THEN 1 + LeadLen(Tail(s)) ELSE 0

\* subject.match(/\$([\d,]+(?:\.\d{2})?)/): group 1, or <<>> for null
MatchAmount(s) ==
    LET n == LeadLen(s)
    IN IF n = 0 THEN <<>>
       ELSE IF /\ Len(s) >= n + 3
               /\ s[n + 1] = "."
               /\ s[n + 2] \in Digits /\ s[n + 3] \in Digits
            THEN SubSeq(s, 1, n + 3)
            ELSE SubSeq(s, 1, n)

\* s.replace(/,/g, '')
StripCommas(s) == SelectSeq(s, LAMBDA c : c # ",")

RECURSIVE DigitsValue(_)
DigitsValue(s) ==
    IF s = <<>> THEN 0
    ELSE 10 * DigitsValue(SubSeq(s, 1, Len(s) - 1)) + DigitVal(s[Len(s)])

\* parseFloat of the matched text, in cents: the leading digits and, after
\* a ".", the two digits of the fraction; NaN when the text has no digit
parseFloat(s) ==
    LET n == LeadLen(s)          \* s has no comma left: the integer digits
        frac == IF Len(s) >= n + 3 THEN SubSeq(s, n + 2, n + 3) ELSE <<>>
    IN IF s = <<>> THEN [nan |-> TRUE, cents |-> 0]
       ELSE [nan |-> FALSE,
             cents |-> 100 * DigitsValue(SubSeq(s, 1, n)) + DigitsValue(frac)]

\* faulty variant: the band is open at both ends
InComcastBand_Open(amount) ==
    ~(amount.nan \/ amount.cents <= 10000 \/ amount.cents >= 20000)

\* !(isNaN(amount) || amount < 100 || amount > 200)
InComcastBand(amount) ==
    ~(amount.nan \/ amount.cents < 10000 \/ amount.cents > 20000)

\* ---- the rules, in the order of their if statements
RuleOrder == <<"nationalgrid", "sunrun", "capitalone", "amex", "chasecard",
               "chasemortgage", "comcast", "eversource">>

\* the condition of a rule's if statement on the lower-cased texts
RuleGate(rule, sender, subj, body) ==
    CASE rule = "nationalgrid" ->
            /\ includes(sender, "nationalgridus.com") \/ includes(body, "from:nationalgridus.com")
            /\ includes(subj, "national grid bill")
      [] rule = "sunrun" ->
            /\ includes(sender, "sunrun.com") \/ includes(body, "from:sunrun.com")
            /\ includes(subj, "sunrun bill")
      [] rule = "capitalone" ->
            includes(sender, "capitalone.com") /\ includes(subj, "withdrawal notice")
      [] rule = "amex" ->
            includes(sender, "americanexpress.com") /\ includes(subj, "received your payment")
      [] rule = "chasecard" ->
            /\ includes(sender, "chase.com")
            /\ includes(subj, "your credit card payment is scheduled")
      [] rule = "chasemortgage" ->
            /\ includes(sender, "chase.com")
            /\ includes(subj, "you scheduled your mortgage payment")
      [] rule = "comcast" ->
            /\ includes(sender, "chase.com")
            /\ includes(subj, "transaction with comcast / xfinity")
      [] rule = "eversource" ->
            /\ includes(sender, "chase.com")
            /\ includes(subj, "transaction with spi*eversource")

\* the first rule whose if statement is entered, "none" when none is
EnteredRule(sender, subj, body) ==
    LET hits == {k \in 1..Len(RuleOrder) : RuleGate(RuleOrder[k], sender, subj, body)}
    IN IF hits = {} THEN "none"
       ELSE RuleOrder[CHOOSE k \in hits : \A h \in hits : k <= h]

CalendarCall(prefix, action, monthOffset, title) ==
    [prefix |-> prefix, action |-> action, monthOffset |-> monthOffset, title |-> title]

NoTitle == <<>>

\* the Capital One rule: the first merchant marker found in the body
CapitalOnePrefix(body) ==
    IF includes(body, "att has initiated") THEN "Pay AT&T"
    ELSE IF includes(body, "lowes has initiated") THEN "Pay Lowes"
    ELSE IF includes(body, "eastern bank has initiated") THEN "Pay Eastern Savings"
    ELSE IF includes(body, "sunrun has initiated") THEN "Sunrun withdrawal"
    ELSE "none"

\* what a handleTransaction call does: the rule entered, the
\* processCalendarEvents calls it makes, whether it starts a Drive upload,
\* and the boolean it returns; bill is how the bill download and upload of
\* an archive rule ends ("uploaded", "nobill", "failed")
TransactionResult(m, bill) ==
    LET sender == toLowerCase(m.from)
        subj == toLowerCase(m.subject)
        body == toLowerCase(m.body)
        rule == EnteredRule(sender, subj, body)
        matched == MatchAmount(IF m.amount.present THEN m.amount.text ELSE <<>>)
        amount == parseFloat(StripCommas(matched))
        out(calls, upload, ret) ==
            [rule |-> rule, calls |-> calls, upload |-> upload, ret |-> ret]
        one(prefix, action, monthOffset, title) ==
            out(<<CalendarCall(prefix, action, monthOffset, title)>>, FALSE, TRUE)
    IN CASE rule \in {"nationalgrid", "sunrun"} ->
              out(<<>>, bill \in {"uploaded", "failed"}, bill = "uploaded")
         [] rule = "capitalone" ->
              IF CapitalOnePrefix(body) = "none" THEN out(<<>>, FALSE, FALSE)
              ELSE one(CapitalOnePrefix(body), "delete", 0, NoTitle)
         [] rule = "amex" -> one("Pay Amex", "delete", 1, NoTitle)
         [] rule = "chasecard" -> one("Pay Chase", "delete", 1, NoTitle)
         [] rule = "chasemortgage" -> one("Pay mortgage", "delete", 1, NoTitle)
         [] rule = "comcast" ->
              IF matched = <<>> \/ ~InComcastBand(amount) THEN out(<<>>, FALSE, FALSE)
              ELSE one("Comcast / Xfinity Withdrawal", "delete", 0, NoTitle)
         [] rule = "eversource" ->
              IF matched = <<>> \/ amount.nan THEN out(<<>>, FALSE, FALSE)
              ELSE one("Pay Gas Bill", "patch", 0, <<"Gas Bill - $", amount.cents>>)
         [] OTHER -> out(<<>>, FALSE, FALSE)

\* amounts a subject can carry
AmountDollars == {99, 100, 150, 200, 1500}
AmountCents == {<<>>, <<0, 0>>, <<0, 1>>}

NoAmount == [present |-> FALSE, dollars |-> 0, cents |-> <<>>, text |-> <<>>]

Amounts ==
    {NoAmount} \cup
    {[present |-> TRUE, dollars |-> d, cents |-> c, text |-> AmountText(d, c, commas)] :
        d \in AmountDollars, c \in AmountCents, commas \in BOOLEAN}

BillEndings == {"uploaded", "nobill", "failed"}

\* the messages handleTransaction is called with; only the amount-bounded
\* rules read the amount of the subject, only the Capital One rule and the
\* forwarded-bill checks read the body
TxnInit ==
    /\ \E f \in Texts(SenderPhrases, MaxPhrases), s \in Texts(SubjectPhrases, MaxPhrases),
          b \in Texts(BodyPhrases, 1), a \in Amounts :
          /\ a = NoAmount \/ s.phrases \cap {"transaction with comcast / xfinity",
                                             "transaction with spi*eversource"} # {}
          /\ b.phrases = {} \/ s.phrases \cap {"national grid bill", "sunrun bill",
                                               "withdrawal notice"} # {}
          /\ txn = [stage |-> "new", from |-> f, subject |-> s, body |-> b, amount |-> a]
    /\ OtherCallsIdle("txn")
    /\ log = <<>> /\ ledger = {} /\ checkpoint = [e \in Emails |-> NoId]
    /\ inv = [i \in Invs |-> IdleInv]
    /\ trueCalls = [m \in Msgs |-> 0] /\ falseCalls = [m \in Msgs |-> 0]
    /\ effects = [m \in Msgs |-> 0] /\ status = [m \in Msgs |-> "new"]
    /\ unread = {}

\* handleTransaction, from its call to its return
HandleTransaction(bill) ==
    /\ txn.stage = "new"
    /\ LET r == TransactionResult(txn, bill)
       IN /\ r.rule \in {"nationalgrid", "sunrun"} \/ bill = "uploaded"
          /\ r.rule = "sunrun" \/ bill # "nobill"
          /\ txn' = [stage |-> "done", from |-> txn.from, subject |-> txn.subject,
                     body |-> txn.body, amount |-> txn.amount, result |-> r]
    /\ UNCHANGED exceptTxn

TxnNext == \E bill \in BillEndings : HandleTransaction(bill)

TxnSpec == TxnInit /\ [][TxnNext]_vars

\* ---------------------------------------------- processCalendarEvents
\* Names and titles are sequences of words; an event without a summary has
\* untitled = TRUE.
MaxEvents == 2      \* events on the target calendar

\* this.calendarName
CalendarName == <<"Bills">>

CalendarNames == {<<"Bills">>, <<"Bills", "Old">>, <<"Home">>}

EventPrefix == <<"Pay", "Amex">>

Summaries == {<<"Pay", "Amex">>, <<"Pay", "Amex", "Card">>, <<"Old", "Pay", "Amex">>, <<"Pay">>}

\* what an event carries besides its title (start, description, attendees)
EventDetails == {"due 1st", "due 15th"}

\* an event of the calendar: titled or not, inside or outside the window
\* the call lists
EventKinds ==
    [summary : Summaries, untitled : {FALSE}, inWindow : BOOLEAN,
     details : EventDetails]
        \cup [summary : {<<>>}, untitled : {TRUE}, inWindow : BOOLEAN,
              details : {"due 1st"}]

CalendarActions == {"delete", "patch"}

\* the effect's title of a patch
PatchTitle == <<"Gas", "Bill">>

\* faulty variant: the prefix is looked for anywhere in the title
startsWith_Anywhere(s, p) ==
    \E k \in 0..(Len(s) - Len(p)) : SubSeq(s, k + 1, k + Len(p)) = p

\* String.prototype.startsWith
startsWith(s, p) == Len(s) >= Len(p) /\ SubSeq(s, 1, Len(p)) = p

\* calendarList.data.items.find((c) => c.summary === this.calendarName)
FindCalendar(calendars) == CalendarName \in calendars

\* calendar.events.list with timeMin/timeMax: the ids of the events in the
\* window, in order
EventsInWindow(events) ==
    SelectSeq([k \in 1..Len(events) |-> k], LAMBDA k : events[k].inWindow)

\* eventsRes.data.items.filter((e) => e.summary.startsWith(eventPrefix)):
\* reading startsWith of a missing summary throws a TypeError
FilterThrows(events, ids) == \E k \in 1..Len(ids) : events[ids[k]].untitled

FilterByPrefix(events, ids, prefix) ==
    SelectSeq(ids, LAMBDA k : startsWith(events[k].summary, prefix))

\* faulty variant: the request body replaces the event (events.update), so
\* what it does not name is cleared
PatchEvent_Replaces(e, requestBody) ==
    [f \in DOMAIN e |->
        IF f \in DOMAIN requestBody THEN requestBody[f]
        ELSE IF f = "details" THEN "" ELSE e[f]]

\* calendar.events.patch({ eventId, requestBody }): the fields the request
\* body names are set, the others are kept
PatchEvent(e, requestBody) ==
    [f \in DOMAIN e |-> IF f \in DOMAIN requestBody THEN requestBody[f] ELSE e[f]]

\* faulty variant: the handler lets the calendar error reach the caller
ReconCatch_Rethrows(r) == [r EXCEPT !.stage = "done", !.threw = TRUE]

\* processCalendarEvents, catch (calErr): logged, reported as false
ReconCatch(r) == [r EXCEPT !.stage = "done", !.ret = FALSE]

ReconInit ==
    /\ \E cals \in SUBSET CalendarNames, n \in 0..MaxEvents, a \in CalendarActions :
         \E evs \in [1..n -> EventKinds] :
            recon = [stage |-> "new", calendars |-> cals, events0 |-> evs,
                     events |-> evs, deleted |-> {}, prefix |-> EventPrefix,
                     action |-> a, title |-> PatchTitle, todo |-> <<>>,
                     calls |-> <<>>, ret |-> FALSE, threw |-> FALSE]
    /\ OtherCallsIdle("recon")
    /\ log = <<>> /\ ledger = {} /\ checkpoint = [e \in Emails |-> NoId]
    /\ inv = [i \in Invs |-> IdleInv]
    /\ trueCalls = [m \in Msgs |-> 0] /\ falseCalls = [m \in Msgs |-> 0]
    /\ effects = [m \in Msgs |-> 0] /\ status = [m \in Msgs |-> "new"]
    /\ unread = {}

\* processCalendarEvents: calendarList.list and the search of the target
ReconCalendarList(fault) ==
    /\ recon.stage = "new"
    /\ recon' = IF fault THEN ReconCatch(recon)
                ELSE IF ~FindCalendar(recon.calendars)
                     THEN [recon EXCEPT !.stage = "done", !.ret = FALSE]
                ELSE [recon EXCEPT !.stage = "events"]
    /\ UNCHANGED exceptRecon

\* processCalendarEvents: events.list and the filter on the prefix
ReconEventsList(fault) ==
    /\ recon.stage = "events"
    /\ LET ids == EventsInWindow(recon.events)
           matching == FilterByPrefix(recon.events, ids, recon.prefix)
       IN recon' = IF fault \/ FilterThrows(recon.events, ids) THEN ReconCatch(recon)
                   ELSE IF matching = <<>>
                        THEN [recon EXCEPT !.stage = "done", !.ret = FALSE]
                   ELSE [recon EXCEPT !.stage = "apply", !.todo = matching]
    /\ UNCHANGED exceptRecon

\* processCalendarEvents, loop body: events.delete or events.patch of the
\* next matching event; after the last one the call returns true
ReconApply(fault) ==
    /\ recon.stage = "apply"
    /\ LET k == Head(recon.todo)
           called == [recon EXCEPT !.calls = Append(@, <<recon.action, k>>)]
           applied ==
              IF recon.action = "delete"
              THEN [called EXCEPT !.deleted = @ \cup {k}]
              ELSE [called EXCEPT !.events[k] =
                                     PatchEvent(@, [summary |-> recon.title])]
       IN recon' = IF fault THEN ReconCatch(called)
                   ELSE IF Len(recon.todo) = 1
                        THEN [applied EXCEPT !.todo = <<>>, !.stage = "done", !.ret = TRUE]
                   ELSE [applied EXCEPT !.todo = Tail(@)]
    /\ UNCHANGED exceptRecon

ReconNext ==
    \/ \E fault \in BOOLEAN : ReconCalendarList(fault)
    \/ \E fault \in BOOLEAN : ReconEventsList(fault)
    \/ \E fault \in BOOLEAN : ReconApply(fault)

ReconSpec == ReconInit /\ [][ReconNext]_vars

\* ----------------------------------- processCalendarEvents, the window
\* A Date is the number of its local day, counted from 1 January FirstYear,
\* and the second of that day. Months are numbered from 0 as in JavaScript.
FirstYear == 2023   \* first year "now" is taken from
NumYears == 2       \* years "now" is taken from (2024 is a leap year)

MonthOffsets == {0, 1}

IsLeapYear(y) == y % 4 = 0 /\ (y % 100 # 0 \/ y % 400 = 0)

DaysInMonth(y, m) ==
    IF m = 1 THEN (IF IsLeapYear(y) THEN 29 ELSE 28)
    ELSE IF m \in {3, 5, 8, 10} THEN 30 ELSE 31

DaysInYear(y) == IF IsLeapYear(y) THEN 366 ELSE 365

\* day number of 1 January of year y
RECURSIVE DayFromYear(_)
DayFromYear(y) == IF y <= FirstYear THEN 0 ELSE DayFromYear(y - 1) + DaysInYear(y - 1)

\* days of year y before its month m
RECURSIVE DayWithinYear(_, _)
DayWithinYear(y, m) == IF m = 0 THEN 0 ELSE DayWithinYear(y, m - 1) + DaysInMonth(y, m - 1)

\* MakeDay of the Date constructor: a month outside 0..11 carries into the
\* year, a date outside the month carries into the neighbouring month
MakeDay(year, month, date) ==
    LET ym == year + (month \div 12)
        mn == month % 12
    IN DayFromYear(ym) + DayWithinYear(ym, mn) + date - 1

MakeTime(hour, min, sec) == hour * 3600 + min * 60 + sec

\* new Date(year, month, date, hours, minutes, seconds)
NewDate(year, month, date, hour, min, sec) ==
    [day |-> MakeDay(year, month, date), sec |-> MakeTime(hour, min, sec)]

\* getFullYear, getMonth, getDate and the date part of toISOString: the
\* calendar date of a day number
Civil(d) ==
    CHOOSE c \in [year : FirstYear..(FirstYear + NumYears), month : 0..11, date : 1..31] :
        /\ c.date <= DaysInMonth(c.year, c.month)
        /\ DayFromYear(c.year) + DayWithinYear(c.year, c.month) + c.date - 1 = d

\* the values of now: every day of the years looked at
Nows ==
    {n \in [year : FirstYear..(FirstYear + NumYears - 1), month : 0..11, date : 1..31] :
        n.date <= DaysInMonth(n.year, n.month)}

\* const monthStart = new Date(now.getFullYear(), now.getMonth() + monthOffset, 1)
monthStart(now, monthOffset) == NewDate(now.year, now.month + monthOffset, 1, 0, 0, 0)

\* faulty variant: the end is taken as the 31st of the month
monthEnd_Day31(now, monthOffset) ==
    NewDate(now.year, now.month + monthOffset, 31, 23, 59, 59)

\* const monthEnd = new Date(now.getFullYear(), now.getMonth() + monthOffset + 1,
\*                           0, 23, 59, 59)
monthEnd(now, monthOffset) ==
    NewDate(now.year, now.month + monthOffset + 1, 0, 23, 59, 59)

WindowInit ==
    /\ \E n \in Nows, off \in MonthOffsets :
          win = [stage |-> "new", now |-> n, monthOffset |-> off]
    /\ OtherCallsIdle("win")
    /\ EventsIdle

\* processCalendarEvents, up to the try: the two ends of the window
ComputeWindow ==
    /\ win.stage = "new"
    /\ win' = [stage |-> "done", now |-> win.now, monthOffset |-> win.monthOffset,
               timeMin |-> monthStart(win.now, win.monthOffset),
               timeMax |-> monthEnd(win.now, win.monthOffset)]
    /\ UNCHANGED exceptWin

WindowSpec == WindowInit /\ [][ComputeWindow]_vars

\* -------------------------------------------------------- uploadToDrive
\* Drive is a sequence of items; the id of an item is its index, 0 is the
\* root (parentId = null).
MaxUploads == 2     \* uploadToDrive calls, one after another

\* folderPath.split('/') of 'House/Sunrun Bills'
folders == <<"House", "Sunrun Bills">>

\* fileData.fileName
fileName == "Sunrun_Bill.pdf"

Root == 0

Folder(name, parent, trashed) ==
    [name |-> name, parent |-> parent, folder |-> TRUE, trashed |-> trashed, content |-> 0]

File(name, parent, trashed, content) ==
    [name |-> name, parent |-> parent, folder |-> FALSE, trashed |-> trashed,
     content |-> content]

Presence == {"absent", "live", "trashed"}

\* the Drive the first call meets: each level of the path absent, present or
\* in the trash, the file likewise, possibly a file of another name in the
\* leaf folder, possibly a folder with the leaf's name directly in the root
InitialDrives ==
    { (IF c.house = "absent" THEN <<>>
       ELSE <<Folder(folders[1], Root, c.house = "trashed")>>)
      \o (IF c.leaf = "absent" THEN <<>>
          ELSE <<Folder(folders[2], 1, c.leaf = "trashed")>>)
      \o (IF c.file = "absent" THEN <<>>
          ELSE <<File(fileName, 2, c.file = "trashed", 0)>>)
      \o (IF c.other THEN <<File("Other.pdf", 2, FALSE, 0)>> ELSE <<>>)
      \o (IF c.decoy THEN <<Folder(folders[2], Root, FALSE)>> ELSE <<>>) :
        c \in {c \in [house : Presence, leaf : Presence, file : Presence,
                      other : BOOLEAN, decoy : BOOLEAN] :
                  /\ c.leaf # "absent" => c.house = "live"
                  /\ (c.file # "absent" \/ c.other) => c.leaf = "live"} }

\* what a call that changes Drive can end as: done, refused, or done with
\* the answer lost on the way back
WriteEndings == {"ok", "failed", "lost"}

\* faulty variant: the search for the folder never finds it
FindFolders_AlwaysMisses(items, name, parentId) == {}

\* #findOrCreateFolder, files.list: mimeType folder, name, trashed=false,
\* and parentId (or 'root') in parents
FindFolders(items, name, parentId) ==
    {id \in 1..Len(items) :
        /\ items[id].folder /\ items[id].name = name
        /\ ~items[id].trashed /\ items[id].parent = parentId}

\* faulty variant: the search for the file never finds it
FindFiles_AlwaysMisses(items, name, parentId) == {}

\* uploadToDrive, files.list: name, parentId in parents, trashed = false
FindFiles(items, name, parentId) ==
    {id \in 1..Len(items) :
        /\ items[id].name = name /\ ~items[id].trashed /\ items[id].parent = parentId}

\* the call ends by throwing (both catch blocks log and rethrow)
DriveThrow(d) == [d EXCEPT !.pc = "idle", !.results = Append(@, "threw")]

\* the loop over the folders goes on with the resolved level as parent
NextLevel(d, id) ==
    [d EXCEPT !.parentId = id, !.level = @ + 1,
              !.pc = IF d.level = Len(folders) THEN "fileList" ELSE "folderList"]

DriveInit ==
    /\ \E its \in InitialDrives :
          drive = [stage |-> "run", items0 |-> its, items |-> its, before |-> its,
                   results |-> <<>>, pc |-> "idle", level |-> 1, parentId |-> Root,
                   fileId |-> 0]
    /\ OtherCallsIdle("drive")
    /\ EventsIdle

\* uploadToDrive is called: parentId = null, first folder of the path
StartUpload ==
    /\ drive.stage = "run" /\ drive.pc = "idle"
    /\ Len(drive.results) < MaxUploads
    /\ drive' = [drive EXCEPT !.pc = "folderList", !.level = 1, !.parentId = Root,
                               !.fileId = 0, !.before = drive.items]
    /\ UNCHANGED exceptDrive

\* #findOrCreateFolder, files.list: the first folder found is the level
FolderList(fault) ==
    /\ drive.stage = "run" /\ drive.pc = "folderList"
    /\ LET found == FindFolders(drive.items, folders[drive.level], drive.parentId)
       IN IF fault THEN drive' = DriveThrow(drive)
          ELSE IF found # {} THEN \E id \in found : drive' = NextLevel(drive, id)
          ELSE drive' = [drive EXCEPT !.pc = "folderCreate"]
    /\ UNCHANGED exceptDrive

\* #findOrCreateFolder, files.create of the folder under parentId
FolderCreate(ending) ==
    /\ drive.stage = "run" /\ drive.pc = "folderCreate"
    /\ LET made == [drive EXCEPT !.items =
                        Append(@, Folder(folders[drive.level], drive.parentId, FALSE))]
       IN drive' = CASE ending = "ok" -> NextLevel(made, Len(made.items))
                     [] ending = "lost" -> DriveThrow(made)
                     [] OTHER -> DriveThrow(drive)
    /\ UNCHANGED exceptDrive

\* uploadToDrive, files.list of the file in the leaf folder: files[0]?.id
FileList(fault) ==
    /\ drive.stage = "run" /\ drive.pc = "fileList"
    /\ LET found == FindFiles(drive.items, fileName, drive.parentId)
       IN IF fault THEN drive' = DriveThrow(drive)
          ELSE IF found # {}
               THEN \E id \in found : drive' = [drive EXCEPT !.fileId = id, !.pc = "fileUpdate"]
          ELSE drive' = [drive EXCEPT !.pc = "fileCreate"]
    /\ UNCHANGED exceptDrive

\* the content uploaded by the call in progress
Uploading(d) == Len(d.results) + 1

\* uploadToDrive, files.update({ media, fileId })
FileUpdate(ending) ==
    /\ drive.stage = "run" /\ drive.pc = "fileUpdate"
    /\ LET made == [drive EXCEPT !.items[drive.fileId].content = Uploading(drive)]
       IN drive' = CASE ending = "ok" ->
                            [made EXCEPT !.pc = "idle", !.results = Append(@, "ok")]
                     [] ending = "lost" -> DriveThrow(made)
                     [] OTHER -> DriveThrow(drive)
    /\ UNCHANGED exceptDrive

\* uploadToDrive, files.create({ media, resource: { name, parents: [parentId] } })
FileCreate(ending) ==
    /\ drive.stage = "run" /\ drive.pc = "fileCreate"
    /\ LET made == [drive EXCEPT !.items =
                        Append(@, File(fileName, drive.parentId, FALSE, Uploading(drive)))]
       IN drive' = CASE ending = "ok" ->
                            [made EXCEPT !.pc = "idle", !.results = Append(@, "ok")]
                     [] ending = "lost" -> DriveThrow(made)
                     [] OTHER -> DriveThrow(drive)
    /\ UNCHANGED exceptDrive

DriveNext ==
    \/ StartUpload
    \/ \E fault \in BOOLEAN : FolderList(fault)
    \/ \E ending \in WriteEndings : FolderCreate(ending)
    \/ \E fault \in BOOLEAN : FileList(fault)
    \/ \E ending \in WriteEndings : FileUpdate(ending)
    \/ \E ending \in WriteEndings : FileCreate(ending)

DriveSpec == DriveInit /\ [][DriveNext]_vars

\* ------------------------------- SunrunClient.extractBillDetailsFromPdf
\* A number in the text is a digit string, a month name is a word of three
\* letters, as the two patterns accept them.
MonthWords == {"Jan", "Nov", "Dec", "DEC", "Foo"}

MonthDigits == {<<1>>, <<0, 1>>, <<1, 1>>, <<1, 2>>}

DayDigits == {<<5>>, <<3, 1>>}

DueYears == {2023, 2024}

\* "MM/DD"
SlashPart(m, d) == [slash |-> TRUE, month |-> m, word |-> "", day |-> d]

\* "Mon DD"
NamePart(w, d) == [slash |-> FALSE, month |-> <<>>, word |-> w, day |-> d]

\* what ([A-Za-z]{3}\s+\d{1,2}|\d{1,2}\/\d{1,2}) can capture
DateParts ==
    {SlashPart(m, d) : m \in MonthDigits, d \in DayDigits}
        \cup {NamePart(w, d) : w \in MonthWords, d \in DayDigits}

\* text.match(...) found nothing
NoMatch == [found |-> FALSE]

\* billingMatch: groups 1 and 2
BillingMatches ==
    {NoMatch} \cup
    {[found |-> TRUE, start |-> b, end |-> e] :
        b \in {SlashPart(<<1, 2>>, <<1>>), NamePart("Nov", <<1, 5>>)}, e \in DateParts}

\* dueMatch: group 1, "MM/DD/YYYY"
DueMatches ==
    {NoMatch} \cup
    {[found |-> TRUE, month |-> m, day |-> <<1, 5>>, year |-> Dec(y)] :
        m \in MonthDigits, y \in DueYears}

\* the texts of a PDF, as far as the two patterns read them
PdfTexts == [billing : BillingMatches, due : DueMatches]

\* mStr.toLowerCase().substring(0, 3)
wordToLowerCase(w) ==
    CASE w = "Jan" -> "jan" [] w = "Nov" -> "nov" [] w \in {"Dec", "DEC"} -> "dec"
      [] OTHER -> "foo"

monthMap ==
    [jan |-> 1, feb |-> 2, mar |-> 3, apr |-> 4, may |-> 5, jun |-> 6,
     jul |-> 7, aug |-> 8, sep |-> 9, oct |-> 10, nov |-> 11, dec |-> 12]

\* parseDatePart: month and day of "MM/DD" or "Mon DD"; the month of an
\* unknown name is undefined
parseDatePart(str) ==
    IF str.slash
    THEN [defined |-> TRUE, month |-> Num(str.month), day |-> Num(str.day)]
    ELSE LET key == wordToLowerCase(str.word)
         IN IF key \in DOMAIN monthMap
            THEN [defined |-> TRUE, month |-> monthMap[key], day |-> Num(str.day)]
            ELSE [defined |-> FALSE, month |-> 0, day |-> Num(str.day)]

\* faulty variant: the year of the due date is taken as it is
BillYear_Unreduced(billEndMonth, dueMonth, dueYear) == dueYear

\* let year = dueYear; if (billEndMonth > dueMonth) year = dueYear - 1
BillYear(billEndMonth, dueMonth, dueYear) ==
    IF billEndMonth > dueMonth THEN dueYear - 1 ELSE dueYear

\* n.toString().padStart(2, '0')
pad(n) == IF n < 10 THEN <<0>> \o Dec(n) ELSE Dec(n)

Null == [null |-> TRUE]

\* `${year}-${pad(billEndMonth)}-${pad(billEndDay)}`
DateString(year, month, day) ==
    [null |-> FALSE, year |-> Dec(year), month |-> pad(month), day |-> pad(day)]

\* the try block after getText: the path taken and the value returned;
\* pad of an undefined month throws, and the catch returns null
ExtractDate(text) ==
    IF ~text.billing.found \/ ~text.due.found
    THEN [path |-> "notfound", result |-> Null]
    ELSE LET billEnd == parseDatePart(text.billing.end)
             dueMonth == Num(text.due.month)
             dueYear == Num(text.due.year)
         IN IF ~billEnd.defined THEN [path |-> "error", result |-> Null]
            ELSE [path |-> "success",
                  result |-> DateString(BillYear(billEnd.month, dueMonth, dueYear),
                                        billEnd.month, billEnd.day)]

\* faulty variant: the parser is destroyed only after a date was built
NeedsDestroy_OnSuccess(p) == p.parser # "none" /\ p.path = "success"

\* finally { if (parser) await parser.destroy() }
NeedsDestroy(p) == p.parser # "none"

PdfInit ==
    /\ \E t \in PdfTexts :
          pdf = [stage |-> "run", pc |-> "new", text |-> t, parser |-> "none",
                 events |-> <<>>, textRead |-> FALSE, path |-> "none", result |-> Null]
    /\ OtherCallsIdle("pdf")
    /\ EventsIdle

\* parser = new PDFParse({ data: pdfBuffer })
PdfConstruct(fault) ==
    /\ pdf.stage = "run" /\ pdf.pc = "new"
    /\ pdf' = IF fault THEN [pdf EXCEPT !.pc = "finally", !.path = "error"]
              ELSE [pdf EXCEPT !.pc = "getText", !.parser = "live",
                               !.events = Append(@, "new")]
    /\ UNCHANGED exceptPdf

\* await parser.getText() and the rest of the try block
PdfGetText(fault) ==
    /\ pdf.stage = "run" /\ pdf.pc = "getText"
    /\ LET got == [pdf EXCEPT !.pc = "finally", !.events = Append(@, "getText")]
           out == ExtractDate(pdf.text)
       IN pdf' = IF fault THEN [got EXCEPT !.path = "error"]
                 ELSE [got EXCEPT !.textRead = TRUE, !.path = out.path,
                                  !.result = out.result]
    /\ UNCHANGED exceptPdf

\* the finally block and the return; a destroy that throws ends the call
\* with that error
PdfFinally(fault) ==
    /\ pdf.stage = "run" /\ pdf.pc = "finally"
    /\ IF NeedsDestroy(pdf)
       THEN LET called == [pdf EXCEPT !.events = Append(@, "destroy")]
            IN pdf' = IF fault THEN [called EXCEPT !.pc = "threw", !.parser = "failed"]
                      ELSE [called EXCEPT !.pc = "returned", !.parser = "destroyed",
                                          !.events = Append(@, "return")]
       ELSE /\ ~fault
            /\ pdf' = [pdf EXCEPT !.pc = "returned", !.events = Append(@, "return")]
    /\ UNCHANGED exceptPdf

PdfNext ==
    \/ \E fault \in BOOLEAN : PdfConstruct(fault)
    \/ \E fault \in BOOLEAN : PdfGetText(fault)
    \/ \E fault \in BOOLEAN : PdfFinally(fault)

PdfSpec == PdfInit /\ [][PdfNext]_vars

\* ------------------------------------- SunrunClient.getBillFromMessage
\* A MIME part: its type, its attachment id (0: none) and its nested parts.
Part(mimeType, attachmentId, parts) ==
    [mimeType |-> mimeType, attachmentId |-> attachmentId, parts |-> parts]

TextPart == Part("text/plain", 0, <<>>)

\* a PDF carried inline, without an attachment id
InlinePdf == Part("application/pdf", 0, <<>>)

PdfPart(id) == Part("application/pdf", id, <<>>)

NoPart == Part("none", 0, <<>>)

\* message.data.payload.parts of the messages looked at
PartLists ==
    { <<>>, <<TextPart>>, <<InlinePdf>>, <<PdfPart(1)>>, <<TextPart, PdfPart(1)>>,
      <<InlinePdf, PdfPart(1)>>,
      <<Part("multipart/alternative", 0, <<TextPart>>), PdfPart(1)>>,
      <<Part("multipart/mixed", 0, <<TextPart, PdfPart(2)>>), PdfPart(1)>>,
      <<Part("multipart/mixed", 0, <<TextPart, PdfPart(2)>>)>> }

\* faulty variant: only the parts of the top level are looked at
RECURSIVE findPdfPart_TopLevel(_)
findPdfPart_TopLevel(parts) ==
    IF parts = <<>> THEN NoPart
    ELSE IF Head(parts).mimeType = "application/pdf" /\ Head(parts).attachmentId # 0
         THEN Head(parts)
    ELSE findPdfPart_TopLevel(Tail(parts))

\* findPdfPart: the first part, depth first, that is a PDF with an
\* attachment id
RECURSIVE findPdfPart(_)
findPdfPart(parts) ==
    IF parts = <<>> THEN NoPart
    ELSE LET part == Head(parts)
         IN IF part.mimeType = "application/pdf" /\ part.attachmentId # 0 THEN part
            ELSE LET found == findPdfPart(part.parts)
                 IN IF found # NoPart THEN found ELSE findPdfPart(Tail(parts))

\* the Date header: absent, not a date, or a local date and hour with the
\* offset of its zone in hours
NoHeader == [kind |-> "absent"]

DateHeaders ==
    {NoHeader, [kind |-> "invalid"]} \cup
    {[kind |-> "date", year |-> d[1], month |-> d[2], date |-> d[3], hour |-> h,
      offset |-> -5] :
        d \in {<<FirstYear, 11, 15>>, <<FirstYear, 12, 31>>}, h \in {10, 22}}

\* new Date(): the day the call runs
Today == [year |-> FirstYear + 1, month |-> 2, date |-> 28]

\* emailDate.toISOString().split('T')[0]: the date in UTC of the instant
\* the header names
toISODate(h) ==
    LET utcHour == h.hour - h.offset
        shift == IF utcHour >= 24 THEN 1 ELSE IF utcHour < 0 THEN -1 ELSE 0
        c == Civil(MakeDay(h.year, h.month - 1, h.date) + shift)
    IN DateString(c.year, c.month + 1, c.date)

\* what extractBillDetailsFromPdf can end as
ExtractEndings ==
    {[kind |-> "date", value |-> DateString(2023, 10, 31)], [kind |-> "null"],
     [kind |-> "throws"]}

\* `Sunrun_Bill_${dateStr}.pdf`
BillFileName(dateStr) == <<"Sunrun_Bill_", dateStr, ".pdf">>

GetBillInit ==
    /\ \E ps \in PartLists, h \in DateHeaders :
          getBill = [stage |-> "run", pc |-> "new", parts |-> ps, header |-> h,
                     pdfPart |-> NoPart, downloads |-> <<>>, extracted |-> [kind |-> "unset"],
                     result |-> Null, threw |-> FALSE, uploads |-> <<>>, ret |-> FALSE]
    /\ OtherCallsIdle("getBill")
    /\ EventsIdle

\* extractPdfAttachment, up to the download: no PDF part, no attachment,
\* and getBillFromMessage returns null
GetBillFindPart ==
    /\ getBill.stage = "run" /\ getBill.pc = "new"
    /\ LET pdfPart == findPdfPart(getBill.parts)
       IN getBill' = IF pdfPart = NoPart THEN [getBill EXCEPT !.pc = "rule"]
                     ELSE [getBill EXCEPT !.pc = "download", !.pdfPart = pdfPart]
    /\ UNCHANGED exceptGetBill

\* extractPdfAttachment: gmail.users.messages.attachments.get; its error
\* leaves getBillFromMessage
GetBillDownload(fault) ==
    /\ getBill.stage = "run" /\ getBill.pc = "download"
    /\ LET got == [getBill EXCEPT !.downloads = Append(@, getBill.pdfPart.attachmentId)]
       IN getBill' = IF fault THEN [got EXCEPT !.pc = "rule", !.threw = TRUE]
                     ELSE [got EXCEPT !.pc = "extract"]
    /\ UNCHANGED exceptGetBill

\* getBillFromMessage after the download: the date of the PDF, else the
\* date of the Date header, else today; toISOString of an invalid Date throws
GetBillName(ending) ==
    /\ getBill.stage = "run" /\ getBill.pc = "extract"
    /\ LET h == getBill.header
           tried == [getBill EXCEPT !.pc = "rule", !.extracted = ending]
           named(dateStr) ==
               [tried EXCEPT !.result = [null |-> FALSE,
                                         buffer |-> getBill.pdfPart.attachmentId,
                                         fileName |-> BillFileName(dateStr)]]
       IN getBill' = IF ending.kind = "date" THEN named(ending.value)
                     ELSE IF h.kind = "absent"
                          THEN named(DateString(Today.year, Today.month, Today.date))
                     ELSE IF h.kind = "invalid" THEN [tried EXCEPT !.threw = TRUE]
                     ELSE named(toISODate(h))
    /\ UNCHANGED exceptGetBill

\* handleTransaction, Sunrun rule after getBillFromMessage: no bill or an
\* error is false; otherwise uploadToDrive, true unless it throws
SunrunRule(uploadOk) ==
    /\ getBill.stage = "run" /\ getBill.pc = "rule"
    /\ IF getBill.threw \/ getBill.result = Null
       THEN /\ uploadOk
            /\ getBill' = [getBill EXCEPT !.pc = "done", !.ret = FALSE]
       ELSE getBill' = [getBill EXCEPT !.pc = "done", !.ret = uploadOk,
                                       !.uploads = Append(@, getBill.result.fileName)]
    /\ UNCHANGED exceptGetBill

GetBillNext ==
    \/ GetBillFindPart
    \/ \E fault \in BOOLEAN : GetBillDownload(fault)
    \/ \E ending \in ExtractEndings : GetBillName(ending)
    \/ \E uploadOk \in BOOLEAN : SunrunRule(uploadOk)

GetBillSpec == GetBillInit /\ [][GetBillNext]_vars

\* ------------------------------- processGmailHistory, the message loop
\* res.data.history as listed: records in the order returned, each with its
\* messagesAdded array (empty when the record has none); the loop over it,
\* one call at a time, and the checkpoint write of handleEvent after it.
MaxRecords == 2     \* history records in one list response
MaxAdded == 2       \* messages in one record's messagesAdded
MaxIds == 3         \* message ids the records are filled from

\* the list responses looked at: no message id occurs twice
Histories ==
    LET ids == 1..MaxIds
        arrays == UNION {[1..n -> ids] : n \in 0..MaxAdded}
        lists == UNION {[1..n -> arrays] : n \in 1..MaxRecords}
        elems(a) == {a[x] : x \in 1..Len(a)}
    IN {h \in lists :
          /\ \A r \in 1..Len(h) : Cardinality(elems(h[r])) = Len(h[r])
          /\ \A r, q \in 1..Len(h) : r # q => elems(h[r]) \cap elems(h[q]) = {}}

RECURSIVE FirstFrom(_, _)
\* the outer for loop: the first record from index r on whose inner loop
\* has an iteration, Len(history) + 1 when none has
FirstFrom(history, r) ==
    IF r > Len(history) \/ history[r] # <<>> THEN r ELSE FirstFrom(history, r + 1)

\* where the loops stand: the inner loop is at message k of record r, or
\* both loops are over and processGmailHistory returns true
At(b, r, k) ==
    [b EXCEPT !.r = r, !.k = k, !.pc = IF r > Len(b.history) THEN "write" ELSE "claim"]

\* faulty variant: the rest of a record is dropped after its first message
Continue_NextRecord(b) == At(b, FirstFrom(b.history, b.r + 1), 1)

\* continue (and the end of the loop body): the next message of the
\* record, else the first message of the next record that has one
Continue(b) ==
    IF b.k < Len(b.history[b.r]) THEN At(b, b.r, b.k + 1)
    ELSE At(b, FirstFrom(b.history, b.r + 1), 1)

\* a call is made for the message the loops stand at
Called(b, op) == [b EXCEPT !.trace = Append(@, <<op, b.history[b.r][b.k]>>)]

BatchInit ==
    /\ \E h \in Histories :
          batch = At([stage |-> "run", history |-> h, r |-> 0, k |-> 0, pc |-> "claim",
                      trace |-> <<>>], FirstFrom(h, 1), 1)
    /\ OtherCallsIdle("batch")
    /\ EventsIdle

\* checkAndMarkMessageProcessed(this.firestore, message.id): true, false
\* (continue) or an error (catch, continue)
BatchClaim(res) ==
    /\ batch.stage = "run" /\ batch.pc = "claim"
    /\ batch' = IF res = "true" THEN [Called(batch, "claim") EXCEPT !.pc = "get"]
                ELSE Continue(Called(batch, "claim"))
    /\ UNCHANGED exceptBatch

\* gmail.users.messages.get: the message, or an error (catch, continue)
BatchGet(ok) ==
    /\ batch.stage = "run" /\ batch.pc = "get"
    /\ batch' = IF ok THEN [Called(batch, "get") EXCEPT !.pc = "handle"]
                ELSE Continue(Called(batch, "get"))
    /\ UNCHANGED exceptBatch

\* handleTransaction: markMessageAsRead follows when it returned true
BatchHandle(wasProcessed) ==
    /\ batch.stage = "run" /\ batch.pc = "handle"
    /\ batch' = IF wasProcessed THEN [Called(batch, "handle") EXCEPT !.pc = "mark"]
                ELSE Continue(Called(batch, "handle"))
    /\ UNCHANGED exceptBatch

\* markMessageAsRead: whether it returns or throws, the next message follows
BatchMark(ok) ==
    /\ batch.stage = "run" /\ batch.pc = "mark"
    /\ batch' = Continue(Called(batch, "mark"))
    /\ UNCHANGED exceptBatch

\* handleEvent after processGmailHistory returned true: docRef.set
BatchWrite(ok) ==
    /\ batch.stage = "run" /\ batch.pc = "write"
    /\ batch' = [batch EXCEPT !.pc = IF ok THEN "done" ELSE "failed",
                              !.trace = Append(@, <<"set", 0>>)]
    /\ UNCHANGED exceptBatch

BatchNext ==
    \/ \E res \in {"true", "false", "throw"} : BatchClaim(res)
    \/ \E ok \in BOOLEAN : BatchGet(ok)
    \/ \E wasProcessed \in BOOLEAN : BatchHandle(wasProcessed)
    \/ \E ok \in BOOLEAN : BatchMark(ok)
    \/ \E ok \in BOOLEAN : BatchWrite(ok)

BatchSpec == BatchInit /\ [][BatchNext]_vars

\* ------------------------- checkAndMarkMessageProcessed, the document
\* Times are milliseconds, counted from the first reading of the clock;
\* Date.now() does not go back between two readings.
MaxClock == 3       \* milliseconds the clock advances while calls are made

DedupIds == {"m1", "m2"}

NoDoc == [exists |-> FALSE]

\* faulty variant: the seven days are counted in seconds
Ttl_Seconds(reading) == reading + 7 * 24 * 60 * 60

\* ttl: Date.now() + 7 * 24 * 60 * 60 * 1000
Ttl(reading) == reading + 7 * 24 * 60 * 60 * 1000

DedupInit ==
    /\ dedup = [stage |-> "run", now |-> 0, docs |-> [id \in DedupIds |-> NoDoc],
                pc |-> "idle", id |-> "m1", timestamp |-> 0, returned |-> <<>>]
    /\ OtherCallsIdle("dedup")
    /\ EventsIdle

\* a millisecond passes
DedupTick ==
    /\ dedup.stage = "run" /\ dedup.now < MaxClock
    /\ dedup' = [dedup EXCEPT !.now = @ + 1]
    /\ UNCHANGED exceptDedup

\* checkAndMarkMessageProcessed(firestore, messageId) is called; the object
\* literal of the document is evaluated, first timestamp: Date.now()
DedupTimestamp(id) ==
    /\ dedup.stage = "run" /\ dedup.pc = "idle"
    /\ dedup' = [dedup EXCEPT !.pc = "create", !.id = id, !.timestamp = dedup.now,
                              !.returned = <<>>]
    /\ UNCHANGED exceptDedup

\* then ttl: Date.now() + ..., and docRef.create(document): the document is
\* written (true), exists already (code 6: false), or the call fails (throw)
DedupCreate(fault) ==
    /\ dedup.stage = "run" /\ dedup.pc = "create"
    /\ LET document == [exists |-> TRUE, timestamp |-> dedup.timestamp,
                        ttl |-> Ttl(dedup.now)]
           res == IF fault THEN "throw"
                  ELSE IF dedup.docs[dedup.id].exists THEN "false" ELSE "true"
       IN dedup' = [dedup EXCEPT !.pc = "idle", !.returned = <<res>>,
                                 !.docs[dedup.id] = IF res = "true" THEN document ELSE @]
    /\ UNCHANGED exceptDedup

DedupNext ==
    \/ DedupTick
    \/ \E id \in DedupIds : DedupTimestamp(id)
    \/ \E fault \in BOOLEAN : DedupCreate(fault)

DedupSpec == DedupInit /\ [][DedupNext]_vars

\* ------------------------------------------------------ extractEmailBody
\* A part of the payload: its mimeType, its body.data (Base64, a sequence of
\* 6-bit digits; <<>> when the part has none) and its nested parts.
MaxParts == 2       \* parts in one parts array

BodyPart(mimeType, data, parts) == [mimeType |-> mimeType, data |-> data, parts |-> parts]

\* sequences of at most MaxParts elements of a set
PartsOf(S) == UNION {[1..n -> S] : n \in 0..MaxParts}

\* the messages looked at: none, one without a payload, and payloads nested
\* up to two levels deep whose parts are text, other content or containers,
\* with and without data; the data are Base64 texts as Gmail encodes a body
\* that is not empty: "aGk" (hi), "b2s" (ok), "QQ" (A)
BodyMessages ==
    LET leaves == {BodyPart("text/plain", <<26, 6, 36>>, <<>>),
                   BodyPart("text/html", <<27, 54, 44>>, <<>>),
                   BodyPart("text/plain", <<>>, <<>>),
                   BodyPart("application/pdf", <<16, 16>>, <<>>)}
        inner == leaves \cup
                 {BodyPart(t, <<>>, ps) : t \in {"multipart/alternative", "text/html"},
                                          ps \in PartsOf(leaves) \ {<<>>}}
        outer == {BodyPart(tp[1], tp[2], ps) :
                    tp \in {<<"multipart/mixed", <<>>>>, <<"text/plain", <<>>>>,
                            <<"text/plain", <<16, 16>>>>},
                    ps \in PartsOf(inner)}
    IN {[kind |-> "undefined"], [kind |-> "nopayload"]}
         \cup {[kind |-> "message", payload |-> p] : p \in outer}

\* Buffer.from(data, 'base64').toString('utf8'): every four digits give
\* three bytes, a rest of three gives two, a rest of two gives one; the
\* bytes are those of the characters
decode(data) ==
    LET n == Len(data)
        bytes == (6 * n) \div 8
        value[k \in 0..n] == IF k = 0 THEN 0 ELSE 64 * value[k - 1] + data[k]
        bits == value[n] \div (2 ^ (6 * n - 8 * bytes))
    IN [j \in 1..bytes |-> (bits \div (256 ^ (bytes - j))) % 256]

RECURSIVE findTextContent(_)
RECURSIVE findInParts(_)
RECURSIVE findInParts_LastFirst(_)
\* faulty variant: the parts are searched from the last to the first
findInParts_LastFirst(parts) ==
    IF parts = <<>> THEN <<>>
    ELSE LET content == findTextContent(parts[Len(parts)])
         IN IF content # <<>> THEN content
            ELSE findInParts_LastFirst(SubSeq(parts, 1, Len(parts) - 1))

\* findTextContent, the loop over part.parts: the first content that is
\* not empty
findInParts(parts) ==
    IF parts = <<>> THEN <<>>
    ELSE LET content == findTextContent(Head(parts))
         IN IF content # <<>> THEN content ELSE findInParts(Tail(parts))

\* findTextContent: the part's own data when it is text/plain or text/html,
\* else its nested parts, else ''
findTextContent(part) ==
    IF part.mimeType = "text/plain" /\ part.data # <<>> THEN decode(part.data)
    ELSE IF part.mimeType = "text/html" /\ part.data # <<>> THEN decode(part.data)
    ELSE findInParts(part.parts)

\* extractEmailBody: '' without message?.data?.payload
extractEmailBody(message) ==
    IF message.kind # "message" THEN <<>> ELSE findTextContent(message.payload)

EmailBodyInit ==
    /\ \E m \in BodyMessages : emailBody = [stage |-> "new", message |-> m]
    /\ OtherCallsIdle("emailBody")
    /\ EventsIdle

ExtractEmailBody ==
    /\ emailBody.stage = "new"
    /\ emailBody' = [stage |-> "done", message |-> emailBody.message,
                     returned |-> extractEmailBody(emailBody.message)]
    /\ UNCHANGED exceptEmailBody

EmailBodySpec == EmailBodyInit /\ [][ExtractEmailBody]_vars

\* ------------------------------------------------------ NationalGridClient
\* One client object (this.accessToken) and the calls made to it; a call is
\* an async function, so calls of two callers interleave at their awaits.
\* grid.trace is the sequence of HTTP requests sent: who sent it, which one,
\* and whether this.accessToken was set when it was sent.
MaxGridCalls == 2   \* calls made to the client, in all

GridCallers == {"a", "b"}

GridOps == {"login", "getBillHistory", "getCurrentBill"}

IdleCaller == [pc |-> "idle", op |-> "none", tokenAtCall |-> FALSE, ran |-> FALSE,
               ended |-> "none"]

\* the request is sent (fetch is called)
Sent(g, c, req) ==
    [g EXCEPT !.trace = Append(@, [by |-> c, req |-> req, token |-> g.accessToken])]

\* the call of caller c ends: it returns ("ok") or throws
GridEnd(g, c, how) == [g EXCEPT !.c[c].pc = "idle", !.c[c].ended = how]

\* faulty variant: getBillHistory does not look at the token
NotAuthenticated_Unchecked(g) == FALSE

\* getBillHistory: !this.accessToken
NotAuthenticated(g) == ~g.accessToken

\* where a call goes once the token is there (or was there from the start):
\* login returns, getCurrentBill calls getBillHistory
AfterLogin(g, c) ==
    IF g.c[c].op = "login" THEN GridEnd(g, c, "ok") ELSE [g EXCEPT !.c[c].pc = "history"]

GridInit ==
    /\ grid = [stage |-> "run", accessToken |-> FALSE, calls |-> 0, trace |-> <<>>,
               c |-> [c \in GridCallers |-> IdleCaller]]
    /\ OtherCallsIdle("grid")
    /\ EventsIdle

\* a method of the client is called: login and, without a token,
\* getCurrentBill start login (loadCredentials, which throws on missing or
\* invalid credentials); getBillHistory and, with a token, getCurrentBill go
\* to getBillHistory
GridCall(c, op, credentialsOk) ==
    /\ grid.stage = "run" /\ grid.c[c].pc = "idle" /\ grid.calls < MaxGridCalls
    /\ LET runsLogin == op = "login" \/ (op = "getCurrentBill" /\ ~grid.accessToken)
           g == [grid EXCEPT !.calls = @ + 1,
                             !.c[c] = [pc |-> "called", op |-> op,
                                       tokenAtCall |-> grid.accessToken,
                                       ran |-> runsLogin, ended |-> "none"]]
       IN /\ runsLogin \/ credentialsOk        \* read by login only
          /\ grid' = IF ~runsLogin THEN [g EXCEPT !.c[c].pc = "history"]
                     ELSE IF ~credentialsOk THEN GridEnd(g, c, "threw")
                     ELSE [g EXCEPT !.c[c].pc = "session"]
    /\ UNCHANGED exceptGrid

\* login, step 1: the initial GET; the response must be ok and carry the
\* cookies x-ms-cpim-csrf and x-ms-cpim-trans with a C_ID
GridSession(c, ok) ==
    /\ grid.stage = "run" /\ grid.c[c].pc = "session"
    /\ grid' = IF ok THEN [Sent(grid, c, "session") EXCEPT !.c[c].pc = "credentials"]
               ELSE GridEnd(Sent(grid, c, "session"), c, "threw")
    /\ UNCHANGED exceptGrid

\* login, step 2: the POST of signInName and password
GridCredentials(c, ok) ==
    /\ grid.stage = "run" /\ grid.c[c].pc = "credentials"
    /\ grid' = IF ok THEN [Sent(grid, c, "credentials") EXCEPT !.c[c].pc = "confirmed"]
               ELSE GridEnd(Sent(grid, c, "credentials"), c, "threw")
    /\ UNCHANGED exceptGrid

\* login, step 3: the confirmed endpoint must redirect with a code
GridConfirmed(c, ok) ==
    /\ grid.stage = "run" /\ grid.c[c].pc = "confirmed"
    /\ grid' = IF ok THEN [Sent(grid, c, "confirmed") EXCEPT !.c[c].pc = "token"]
               ELSE GridEnd(Sent(grid, c, "confirmed"), c, "threw")
    /\ UNCHANGED exceptGrid

\* login, step 4: the code is exchanged; this.accessToken is set from a
\* response that has an access_token
GridToken(c, ok) ==
    /\ grid.stage = "run" /\ grid.c[c].pc = "token"
    /\ grid' = IF ok THEN AfterLogin([Sent(grid, c, "token") EXCEPT !.accessToken = TRUE], c)
               ELSE GridEnd(Sent(grid, c, "token"), c, "threw")
    /\ UNCHANGED exceptGrid

\* getBillHistory: the token check and the GraphQL request; the call throws
\* without a token, on a response that is not ok and on an empty history
GridHistory(c, ok) ==
    /\ grid.stage = "run" /\ grid.c[c].pc = "history"
    /\ NotAuthenticated(grid) => ok           \* no response to look at
    /\ grid' = IF NotAuthenticated(grid) THEN GridEnd(grid, c, "notauthenticated")
               ELSE IF ~ok THEN GridEnd(Sent(grid, c, "history"), c, "threw")
               ELSE IF grid.c[c].op = "getCurrentBill"
                    THEN [Sent(grid, c, "history") EXCEPT !.c[c].pc = "pdf"]
               ELSE GridEnd(Sent(grid, c, "history"), c, "ok")
    /\ UNCHANGED exceptGrid

\* getCurrentBill: the request of the PDF of the latest bill
GridPdf(c, ok) ==
    /\ grid.stage = "run" /\ grid.c[c].pc = "pdf"
    /\ grid' = GridEnd(Sent(grid, c, "pdf"), c, IF ok THEN "ok" ELSE "threw")
    /\ UNCHANGED exceptGrid

GridNext ==
    \/ \E c \in GridCallers, op \in GridOps, credentialsOk \in BOOLEAN :
          GridCall(c, op, credentialsOk)
    \/ \E c \in GridCallers, ok \in BOOLEAN : GridSession(c, ok)
    \/ \E c \in GridCallers, ok \in BOOLEAN : GridCredentials(c, ok)
    \/ \E c \in GridCallers, ok \in BOOLEAN : GridConfirmed(c, ok)
    \/ \E c \in GridCallers, ok \in BOOLEAN : GridToken(c, ok)
    \/ \E c \in GridCallers, ok \in BOOLEAN : GridHistory(c, ok)
    \/ \E c \in GridCallers, ok \in BOOLEAN : GridPdf(c, ok)

GridSpec == GridInit /\ [][GridNext]_vars

\* ------------------------------------- uploadToDrive, two calls at once
\* Two uploadToDrive calls of overlapping invocations, for the same folder
\* path and file name, interleaving at their awaits over one Drive.
Uploaders == {"a", "b"}

\* the content each call uploads
ContentOf(u) == IF u = "a" THEN 1 ELSE 2

UploadsInit ==
    /\ \E its \in InitialDrives :
          uploads = [stage |-> "run", items |-> its,
                     c |-> [u \in Uploaders |->
                              [pc |-> "new", level |-> 1, parentId |-> Root, fileId |-> 0]]]
    /\ OtherCallsIdle("uploads")
    /\ EventsIdle

\* the call of u ends: uploadToDrive returns ("ok") or throws
UploadEnds(u, how) == [uploads EXCEPT !.c[u].pc = how]

\* uploadToDrive is called: parentId = null, first folder of the path
UploadStart(u) ==
    /\ uploads.stage = "run" /\ uploads.c[u].pc = "new"
    /\ uploads' = [uploads EXCEPT !.c[u].pc = "folderList"]
    /\ UNCHANGED exceptUploads

\* #findOrCreateFolder, files.list: the first folder found is the level
UploadFolderList(u, fault) ==
    /\ uploads.stage = "run" /\ uploads.c[u].pc = "folderList"
    /\ LET me == uploads.c[u]
           found == FindFolders(uploads.items, folders[me.level], me.parentId)
       IN IF fault THEN uploads' = UploadEnds(u, "threw")
          ELSE IF found # {}
               THEN \E id \in found : uploads' = [uploads EXCEPT !.c[u] = NextLevel(me, id)]
          ELSE uploads' = [uploads EXCEPT !.c[u].pc = "folderCreate"]
    /\ UNCHANGED exceptUploads

\* #findOrCreateFolder, files.create of the folder under parentId
UploadFolderCreate(u, fault) ==
    /\ uploads.stage = "run" /\ uploads.c[u].pc = "folderCreate"
    /\ LET me == uploads.c[u]
           items == Append(uploads.items, Folder(folders[me.level], me.parentId, FALSE))
       IN uploads' = IF fault THEN UploadEnds(u, "threw")
                     ELSE [uploads EXCEPT !.items = items,
                                          !.c[u] = NextLevel(me, Len(items))]
    /\ UNCHANGED exceptUploads

\* uploadToDrive, files.list of the file in the leaf folder: files[0]?.id
UploadFileList(u, fault) ==
    /\ uploads.stage = "run" /\ uploads.c[u].pc = "fileList"
    /\ LET found == FindFiles(uploads.items, fileName, uploads.c[u].parentId)
       IN IF fault THEN uploads' = UploadEnds(u, "threw")
          ELSE IF found # {}
               THEN \E id \in found :
                       uploads' = [uploads EXCEPT !.c[u].fileId = id, !.c[u].pc = "fileWrite"]
          ELSE uploads' = [uploads EXCEPT !.c[u].pc = "fileWrite"]
    /\ UNCHANGED exceptUploads

\* uploadToDrive: files.update of the file found, files.create of a new
\* file in the leaf folder when none was found
UploadFileWrite(u, fault) ==
    /\ uploads.stage = "run" /\ uploads.c[u].pc = "fileWrite"
    /\ LET me == uploads.c[u]
           items == IF me.fileId # 0
                    THEN [uploads.items EXCEPT ![me.fileId].content = ContentOf(u)]
                    ELSE Append(uploads.items,
                                File(fileName, me.parentId, FALSE, ContentOf(u)))
       IN uploads' = IF fault THEN UploadEnds(u, "threw")
                     ELSE [UploadEnds(u, "ok") EXCEPT !.items = items]
    /\ UNCHANGED exceptUploads

UploadsNext ==
    \/ \E u \in Uploaders : UploadStart(u)
    \/ \E u \in Uploaders, fault \in BOOLEAN : UploadFolderList(u, fault)
    \/ \E u \in Uploaders, fault \in BOOLEAN : UploadFolderCreate(u, fault)
    \/ \E u \in Uploaders, fault \in BOOLEAN : UploadFileList(u, fault)
    \/ \E u \in Uploaders, fault \in BOOLEAN : UploadFileWrite(u, fault)

UploadsSpec == UploadsInit /\ [][UploadsNext]_vars

\* ================================================================ claims

\* two invocations are both inside handleEvent past the staleness check and
\* neither has written a checkpoint
Overlapping(i, j) ==
    /\ i # j
    /\ inv[i].pc \in {"claim", "handle", "write", "done"}
    /\ inv[j].pc \in {"claim", "handle", "write", "done"}
    /\ inv[i].listStatus = 200 /\ inv[j].listStatus = 200
    /\ i \notin inv[j].after /\ j \notin inv[i].after
    /\ inv[i].lastHistoryId = inv[j].lastHistoryId

\* C1: for every message id, among the checkAndMarkMessageProcessed calls
\* the store has answered (in any interleaving), exactly one returned true,
\* the one whose create wrote the document, and every other returned false;
\* no call returns false while the document is absent.
C1_ExactlyOneClaimWins ==
    \A m \in Msgs :
        /\ trueCalls[m] <= 1
        /\ (trueCalls[m] + falseCalls[m] >= 1) => trueCalls[m] = 1
        /\ (m \in ledger) <=> (trueCalls[m] = 1)

\* a message was claimed by one invocation and refused to a concurrent one
C1_Witness ==
    \E m \in Msgs, i, j \in Invs :
        /\ trueCalls[m] = 1 /\ falseCalls[m] >= 1
        /\ m \in inv[i].claimed /\ m \in inv[j].dups
        /\ Overlapping(i, j)

\* C2: every message has its side effect (a calendar or Drive mutation
\* call) executed by at most one invocation, and by that one at most once,
\* also when invocations for the same mailbox overlap and pass the staleness
\* check before either writes a checkpoint.
C2_EffectAtMostOnce ==
    \A m \in Msgs :
        /\ effects[m] <= 1
        /\ Cardinality({i \in Invs : m \in inv[i].muts}) <= 1
        /\ \A i \in Invs : m \in inv[i].muts => m \in inv[i].claimed

\* two overlapping invocations listed the same message, one executed its
\* effect, the other skipped it
C2_Witness ==
    \E m \in Msgs, i, j \in Invs :
        /\ Overlapping(i, j)
        /\ inv[i].email = inv[j].email
        /\ inv[i].wrote = <<>> /\ inv[j].wrote = <<>>
        /\ m \in inv[i].muts /\ m \in inv[j].dups
        /\ effects[m] = 1

\* the same payload, delivered to j after the run of i had ended
Replayed(i, j) ==
    /\ i \in inv[j].after
    /\ inv[i].email = inv[j].email
    /\ inv[i].newHistoryId = inv[j].newHistoryId

\* C3 (as claimed): when the same payload is delivered twice in sequence,
\* the second run issues no calendar or Drive mutation call, whatever the
\* outcome of the first run.
C3_SecondRunNoMutation ==
    \A i, j \in Invs : Replayed(i, j) => inv[j].muts = {}

\* C3 (amended): when the same payload is delivered twice in sequence, the
\* second run issues no mutation call for a message the first run claimed;
\* and when the first run wrote the payload's position as the checkpoint and
\* the second run reads that value, the second run is dropped as stale: no
\* history list call, no claim, no mutation call.
C3_ReplayAfterCommit ==
    \A i, j \in Invs :
        Replayed(i, j) =>
            /\ inv[j].muts \cap inv[i].claimed = {}
            /\ ( /\ inv[i].outcome = "ok"
                 /\ inv[j].pc \notin {"idle", "read"}
                 /\ inv[j].lastHistoryId = inv[i].newHistoryId )
               => /\ inv[j].outcome = "stale"
                  /\ inv[j].listStatus = 0
                  /\ inv[j].claimed = {} /\ inv[j].muts = {}

\* the first run applied an effect and advanced the checkpoint, the replay
\* of its payload was dropped
C3_Witness ==
    \E i, j \in Invs :
        /\ Replayed(i, j)
        /\ inv[i].outcome = "ok" /\ inv[i].muts # {}
        /\ inv[j].outcome = "stale"
        /\ inv[j].lastHistoryId = inv[i].newHistoryId

\* the message's rule has an effect to apply
Matches(m) == m <= Len(log) /\ log[m] \in {"cal", "arch"}

\* once the handling of a claimed message has ended, no later step applies
\* (or re-applies) its effect: the ledger document stays and every later
\* claim of the message returns false
HandledIsFinal ==
    [][\A m \in Msgs :
         status[m] \notin {"new", "claimed"} =>
             /\ status'[m] = status[m]
             /\ effects'[m] = effects[m]]_vars

\* C4: every message that matches a rule has its effect applied exactly
\* once: never twice, and never zero times once its handling has ended (the
\* ledger refuses the message to every later invocation, so an effect not
\* applied by the invocation that claimed it is never applied).
C4_ExactlyOncePerMessage ==
    \A m \in Msgs :
        Matches(m) =>
            /\ effects[m] <= 1
            /\ status[m] \notin {"new", "claimed"} => status[m] \in {"applied", "absent"}

\* C5: the stored lastHistoryId of a mailbox never decreases, and every
\* write is the invocation's own notification position or, in a baseline
\* reset, the head fetched from the profile.
C5_CheckpointNeverDecreases ==
    /\ [][\A e \in Emails :
            checkpoint[e] # NoId =>
                /\ checkpoint'[e] # NoId
                /\ Num(checkpoint'[e]) >= Num(checkpoint[e])]_vars
    /\ [](\A i \in Invs : \A k \in 1..Len(inv[i].wrote) :
            \/ inv[i].wrote[k] = inv[i].newHistoryId
            \/ inv[i].outcome = "reset" /\ inv[i].wrote[k] = inv[i].resetHistoryId)

\* C6: an invocation that read the checkpoint P and whose notification
\* carries a position less than or equal to P ends right there: no history
\* list call, no claim, no effect, no checkpoint write.
C6_StaleIsDropped ==
    \A i \in Invs :
        ( /\ inv[i].pc \notin {"idle", "read"}
          /\ inv[i].lastHistoryId # NoId
          /\ Num(inv[i].newHistoryId) <= Num(inv[i].lastHistoryId) )
        => /\ inv[i].pc = "done" /\ inv[i].outcome = "stale"
           /\ inv[i].listStatus = 0
           /\ inv[i].claimed = {} /\ inv[i].dups = {} /\ inv[i].muts = {}
           /\ inv[i].wrote = <<>>

\* C7: an invocation that persisted its notification's position as the
\* checkpoint had no message it claimed fail in its handling (fetch or
\* mark-read raising an error).
C7_AdvanceOnlyOnFullSuccess ==
    \A i \in Invs : inv[i].outcome = "ok" => inv[i].failed \cap inv[i].claimed = {}

\* the handling of message m ended without an error
FullyProcessed(m) ==
    /\ status[m] \in {"nomatch", "applied", "absent"}
    /\ \A i \in Invs : m \in inv[i].claimed => m \notin inv[i].failed

\* C8 (the concurrent case the claim singles out of "checkpoint P means
\* every message at or before P is fully processed"): no invocation has
\* written its checkpoint past a message it skipped as a duplicate while
\* the invocation that won the claim for that message has not finished, or
\* has failed, handling it.
C8_NoAdvancePastLostClaim ==
    \A i \in Invs :
        inv[i].outcome = "ok" =>
            \A m \in inv[i].dups :
                PosOf(m) <= Num(inv[i].newHistoryId) => FullyProcessed(m)

\* C9: an invocation whose history list call failed with an error other
\* than status 400 processes no message and writes no checkpoint, and a
\* later notification with a newer position, reading the same stored
\* position, starts its sync from that position.
C9_ListFailureRetried ==
    \A i \in Invs :
        (inv[i].listStatus \notin {0, 200} /\ ~IsInvalidHistoryId(inv[i].listStatus)) =>
            /\ inv[i].claimed = {} /\ inv[i].dups = {} /\ inv[i].muts = {}
            /\ inv[i].wrote = <<>>
            /\ \A j \in Invs :
                 ( /\ i \in inv[j].after
                   /\ inv[j].email = inv[i].email
                   /\ inv[j].pc \notin {"idle", "read"}
                   /\ inv[i].lastHistoryId # NoId
                   /\ inv[j].lastHistoryId = inv[i].lastHistoryId
                   /\ Num(inv[j].newHistoryId) > Num(inv[i].newHistoryId) )
                 => /\ inv[j].outcome # "stale"
                    /\ inv[j].startId = inv[i].lastHistoryId

\* C10 (as claimed): an invocation whose history list call reported status
\* 400 ends with exactly one checkpoint write.
C10_ExactlyOneResetWrite ==
    \A i \in Invs :
        (inv[i].listStatus = 400 /\ inv[i].pc = "done") => Len(inv[i].wrote) = 1

\* C10 (amended): an invocation whose history list call reported status 400
\* claims and processes no message and performs at most one checkpoint
\* write; it ends in the reset or in a failed reset, and when neither the
\* profile fetch nor the write failed it has written exactly once, the head
\* position it fetched from the profile after the 400 response.
C10_BaselineReset ==
    \A i \in Invs :
        inv[i].listStatus = 400 =>
            /\ inv[i].claimed = {} /\ inv[i].dups = {}
            /\ inv[i].muts = {} /\ inv[i].failed = {}
            /\ inv[i].pc \in {"profile", "reset", "done"}
            /\ inv[i].pc = "done" => inv[i].outcome \in {"reset", "resetfailed"}
            /\ inv[i].outcome # "reset" => inv[i].wrote = <<>>
            /\ inv[i].outcome = "reset" =>
                 /\ inv[i].wrote = <<inv[i].resetHistoryId>>
                 /\ Num(inv[i].resetHistoryId) >= inv[i].headSeen
                 /\ Num(inv[i].resetHistoryId) <= MailboxHead

\* a reset went through while the head had moved past the notification
C10_Witness ==
    \E i \in Invs :
        /\ inv[i].listStatus = 400 /\ inv[i].outcome = "reset"
        /\ checkpoint[inv[i].email] = inv[i].resetHistoryId
        /\ inv[i].resetHistoryId # inv[i].newHistoryId

\* the elements of a sequence
Range(q) == {q[k] : k \in 1..Len(q)}

\* C11: an invocation whose history list response had no history section
\* ends there ("no changes"): it has called no claim (no ledger write),
\* fetched no message, issued no mutation or mark-read call, recorded no
\* error, and has not written the checkpoint.
C11_NoHistoryNoChange ==
    \A i \in Invs :
        inv[i].hist = "absent" =>
            /\ inv[i].pc = "done" /\ inv[i].outcome = "nochange"
            /\ inv[i].tried = {} /\ inv[i].claimed = {} /\ inv[i].dups = {}
            /\ inv[i].fetched = {} /\ inv[i].muts = {} /\ inv[i].marked = {}
            /\ inv[i].failed = {}
            /\ inv[i].wrote = <<>>

\* a first run (no checkpoint) listed from its own position, found no
\* history section and left the checkpoint absent
C11_Witness ==
    \E i \in Invs :
        /\ inv[i].hist = "absent" /\ inv[i].outcome = "nochange"
        /\ inv[i].listStatus = 200
        /\ Len(log) >= 1
        /\ checkpoint[inv[i].email] = NoId

\* C12: a failure while handling one message never aborts the batch: at
\* every point of the loop the listed messages are those already tried and
\* those still queued; when the loop is over every listed message has had
\* its claim called; every message claimed as new has been fetched (or is
\* the one being handled); every message fetched without an error and
\* matching a rule has had its effect dispatched.
C12_FailureDoesNotAbortBatch ==
    \A i \in Invs :
        inv[i].hist = "present" =>
            /\ Range(inv[i].listed) = inv[i].tried \cup Range(inv[i].queue)
            /\ inv[i].pc \in {"write", "done"} => inv[i].tried = Range(inv[i].listed)
            /\ inv[i].claimed \subseteq inv[i].tried
            /\ inv[i].claimed \subseteq
                 inv[i].fetched \cup (IF inv[i].pc = "handle" THEN {Head(inv[i].queue)} ELSE {})
            /\ \A m \in inv[i].fetched :
                 (status[m] = "applied") => m \in inv[i].muts

\* the first message of a batch failed, the next one was claimed, fetched
\* and had its effect applied by the same invocation
C12_Witness ==
    \E i \in Invs, m1, m2 \in Msgs :
        /\ m1 < m2
        /\ inv[i].listed = <<m1, m2>>
        /\ m1 \in inv[i].failed
        /\ m2 \in inv[i].claimed /\ m2 \in inv[i].fetched /\ m2 \in inv[i].muts
        /\ m2 \notin inv[i].failed

\* the steps handleEvent can take in invocation i once it has started
InvocationStep(i) ==
    \/ \E fault \in BOOLEAN : ReadCheckpoint(i, fault)
    \/ \E st \in ListStatuses : HistoryList(i, st)
    \/ \E fault \in BOOLEAN : Claim(i, fault)
    \/ \E getOk \in BOOLEAN, eff \in EffectEndings, markOk \in BOOLEAN :
          Handle(i, getOk, eff, markOk)
    \/ \E fault \in BOOLEAN : WriteCheckpoint(i, fault)
    \/ \E fault \in BOOLEAN : GetProfile(i, fault)
    \/ \E fault \in BOOLEAN : ResetBaseline(i, fault)

\* number of steps invocation record r can still take, at most
StepsLeft(r) ==
    CASE r.pc = "idle" -> 2 * MaxLog + 7
      [] r.pc = "read" -> 2 * MaxLog + 6
      [] r.pc = "list" -> 2 * MaxLog + 5
      [] r.pc = "claim" -> 2 * Len(r.queue) + 3
      [] r.pc = "handle" -> 2 * Len(r.queue) + 2
      [] r.pc = "write" -> 2
      [] r.pc = "profile" -> 2
      [] r.pc = "reset" -> 1
      [] OTHER -> 0

\* C13: every handleEvent invocation reaches a terminal state and resolves
\* without surfacing an error: no invocation ends with an error thrown to
\* its caller; an invocation that is not terminal can always take a step,
\* whether the remote call of that step returns or fails; and every step
\* of an invocation strictly lowers the number of steps it has left, so no
\* invocation runs forever.
C13_AlwaysResolves ==
    /\ [](\A i \in Invs :
            /\ inv[i].outcome # "thrown"
            /\ inv[i].pc = "done" <=> inv[i].outcome # "none"
            /\ inv[i].pc \notin {"idle", "done"} => ENABLED InvocationStep(i))
    /\ [][\A i \in Invs :
            inv'[i] # inv[i] => StepsLeft(inv'[i]) < StepsLeft(inv[i])]_vars

\* every kind of failure has been swallowed by some finished invocation: a
\* payload that is not JSON, a failed checkpoint read, a failed list call or
\* checkpoint write, a failed reset
C13_Witness ==
    \E i, j \in Invs :
        /\ inv[i].pc = "done" /\ inv[i].outcome = "error" /\ inv[i].reads = 1
        /\ inv[j].pc = "done" /\ inv[j].outcome \in {"apierror", "resetfailed"}

\* C14: a notification whose event has no message data, or whose data does
\* not parse as JSON, is dropped: the invocation is over after the decode
\* step, without an error surfaced, and has made no checkpoint read or
\* write, no history list call, no claim (ledger write), no message fetch,
\* no calendar or Drive mutation call and no mark-read call.
C14_MalformedIsDropped ==
    \A i \in Invs :
        inv[i].payload \in {"nodata", "notjson"} =>
            /\ inv[i].pc = "done"
            /\ inv[i].outcome = (IF inv[i].payload = "nodata" THEN "nodata" ELSE "error")
            /\ inv[i].reads = 0 /\ inv[i].wrote = <<>>
            /\ inv[i].listStatus = 0 /\ inv[i].hist = "unset"
            /\ inv[i].tried = {} /\ inv[i].fetched = {}
            /\ inv[i].muts = {} /\ inv[i].marked = {}

\* both kinds of malformed notification were dropped while the mailbox had
\* history to offer
C14_Witness ==
    \E i, j \in Invs :
        /\ inv[i].payload = "nodata" /\ inv[i].pc = "done"
        /\ inv[j].payload = "notjson" /\ inv[j].pc = "done"
        /\ Len(log) >= 1
        /\ ledger = {}

\* C15: a message is marked read (leaves the UNREAD label) only when its
\* effect was applied: the calendar reconciliation deleted or patched its
\* events, or the archive upload completed.
C15_MarkedReadOnlyWhenApplied ==
    \A m \in Msgs :
        (m <= Len(log) /\ log[m] # "nomsg" /\ m \notin unread) => status[m] = "applied"

\* C16: for every checkAndMarkMessageProcessed call made, the call returned
\* false only if (and whenever) the create-only write was rejected as
\* already existing, returned true only for a create that went through,
\* and a create that failed for any other reason was rethrown: it was
\* reported neither as true nor as false, and the message is in neither
\* the claimed nor the duplicate set on its account.
C16_OnlyAlreadyExistsIsFalse ==
    \A i \in Invs :
        /\ \A c \in inv[i].creates :
             /\ (c[2] = "false") <=> (c[1] = "exists")
             /\ (c[2] = "true") <=> (c[1] = "ok")
             /\ (c[2] = "throw") <=> (c[1] = "error")
        /\ inv[i].claimed \cap inv[i].dups = {}
        /\ Cardinality(inv[i].claimed) + Cardinality(inv[i].dups)
             <= Cardinality(inv[i].tried)

\* one invocation had a claim rethrown on a storage failure and another
\* claim returned false on an existing document
C16_Witness ==
    \E i \in Invs :
        /\ <<"error", "throw">> \in inv[i].creates
        /\ <<"exists", "false">> \in inv[i].creates
        /\ Cardinality(inv[i].dups) = 1 /\ inv[i].claimed = {}
        /\ Cardinality(inv[i].tried) = 2

\* C19: a message that matches no rule has no calendar or Drive mutation
\* call and no mark-read call made for it, keeps its UNREAD label, and its
\* handling ends without an error once it was fetched.
C19_NoMatchNoCalls ==
    \A m \in Msgs :
        (m <= Len(log) /\ log[m] = "none") =>
            /\ effects[m] = 0
            /\ m \in unread
            /\ \A i \in Invs : m \notin inv[i].muts /\ m \notin inv[i].marked
            /\ status[m] \in {"new", "claimed", "nomatch", "getfail"}
            /\ status[m] = "nomatch" =>
                 \A i \in Invs : m \in inv[i].fetched => m \notin inv[i].failed

\* a message matching no rule was fetched and classified, and the
\* invocation went on to advance the checkpoint
C19_Witness ==
    \E m \in Msgs, i \in Invs :
        /\ m <= Len(log) /\ log[m] = "none"
        /\ status[m] = "nomatch"
        /\ m \in inv[i].fetched
        /\ inv[i].outcome = "ok"

\* the text contains the phrase, in whatever letter case it is written
Contains(t, phrase) == phrase \in t.phrases

\* position of a rule in the order of evaluation
RuleIndex(rule) == CHOOSE k \in 1..Len(RuleOrder) : RuleOrder[k] = rule

\* the if statement of a rule evaluated before `rule` is entered by message m
EarlierRuleEntered(m, rule) ==
    \E k \in 1..(RuleIndex(rule) - 1) :
        RuleGate(RuleOrder[k], [m.from EXCEPT !.upper = FALSE],
                 [m.subject EXCEPT !.upper = FALSE], [m.body EXCEPT !.upper = FALSE])

\* the message is a Capital One withdrawal notice that no earlier rule takes
CapitalOneNotice(m) ==
    /\ Contains(m.from, "capitalone.com")
    /\ Contains(m.subject, "withdrawal notice")
    /\ ~EarlierRuleEntered(m, "capitalone")

\* C17: handleTransaction evaluates its rules in one fixed order and applies
\* at most one effect per message (one processCalendarEvents call or one
\* upload, never both), that of the first rule in the order that the
\* message enters. For a sender containing capitalone.com and a subject
\* containing "withdrawal notice", in any letter case (and not taken by one
\* of the two rules evaluated before), a body containing "ATT has
\* initiated" yields exactly one call, a delete on prefix "Pay AT&T" with
\* monthOffset 0, and a body with none of the four merchant markers yields
\* no match, no call, and no later rule is tried.
C17_FirstMatchingRuleWins ==
    txn.stage = "done" =>
        LET r == txn.result
        IN /\ Len(r.calls) + (IF r.upload THEN 1 ELSE 0) <= 1
           /\ r.rule # "none" => ~EarlierRuleEntered(txn, r.rule)
           /\ r.ret => r.rule # "none"
           /\ ( CapitalOneNotice(txn) /\ Contains(txn.body, "att has initiated") )
              => /\ r.rule = "capitalone" /\ r.ret /\ ~r.upload
                 /\ r.calls = <<[prefix |-> "Pay AT&T", action |-> "delete",
                                 monthOffset |-> 0, title |-> NoTitle]>>
           /\ ( CapitalOneNotice(txn)
                /\ \A p \in {"att has initiated", "lowes has initiated",
                             "eastern bank has initiated", "sunrun has initiated"} :
                       ~Contains(txn.body, p) )
              => /\ r.rule = "capitalone"
                 /\ ~r.ret /\ r.calls = <<>> /\ ~r.upload

\* an upper-case Capital One withdrawal notice for AT&T that also satisfies
\* the Chase card rule was answered with the AT&T delete alone
C17_Witness ==
    /\ txn.stage = "done"
    /\ txn.from.phrases = {"capitalone.com", "chase.com"} /\ txn.from.upper
    /\ txn.subject.phrases = {"withdrawal notice", "your credit card payment is scheduled"}
    /\ txn.subject.upper
    /\ txn.body.phrases = {"att has initiated"} /\ txn.body.upper
    /\ Len(txn.result.calls) = 1 /\ txn.result.calls[1].prefix = "Pay AT&T"

\* the value in cents of the amount a subject carries
AmountValue(a) ==
    100 * a.dollars + (IF a.cents = <<>> THEN 0 ELSE 10 * a.cents[1] + a.cents[2])

\* C18: for a message from chase.com whose subject contains "transaction
\* with comcast / xfinity" (and that no rule evaluated before takes), the
\* delete on "Comcast / Xfinity Withdrawal" (monthOffset 0) is dispatched if
\* and only if the subject carries a dollar amount whose value lies in
\* [100, 200]; with no amount or an amount outside the band
\* handleTransaction returns false and makes no calendar call.
C18_ComcastAmountBand ==
    ( /\ txn.stage = "done"
      /\ Contains(txn.from, "chase.com")
      /\ Contains(txn.subject, "transaction with comcast / xfinity")
      /\ ~EarlierRuleEntered(txn, "comcast") )
    => LET r == txn.result
           inBand == /\ txn.amount.present
                     /\ AmountValue(txn.amount) >= 10000
                     /\ AmountValue(txn.amount) <= 20000
       IN /\ r.rule = "comcast"
          /\ inBand => /\ r.ret
                       /\ r.calls = <<[prefix |-> "Comcast / Xfinity Withdrawal",
                                       action |-> "delete", monthOffset |-> 0,
                                       title |-> NoTitle]>>
          /\ ~inBand => ~r.ret /\ r.calls = <<>> /\ ~r.upload

\* a Comcast transaction of exactly $200.00, the upper end of the band, was
\* accepted
C18_Witness ==
    /\ txn.stage = "done"
    /\ txn.from.phrases = {"chase.com"}
    /\ txn.subject.phrases = {"transaction with comcast / xfinity"}
    /\ txn.amount.present /\ AmountValue(txn.amount) = 20000
    /\ txn.amount.text = <<"2", "0", "0", ".", "0", "0">>
    /\ txn.result.ret /\ Len(txn.result.calls) = 1

\* the title of event e begins with the words of prefix p
TitleBeginsWith(e, p) ==
    /\ ~e.untitled
    /\ Len(e.summary) >= Len(p)
    /\ \A k \in 1..Len(p) : e.summary[k] = p[k]

\* no event the window lists has a title that begins with the prefix
NoMatchingEvent ==
    \A k \in 1..Len(recon.events0) :
        recon.events0[k].inWindow => ~TitleBeginsWith(recon.events0[k], recon.prefix)

\* C20: processCalendarEvents never throws, whatever call of it fails, and
\* when no calendar of the account has exactly the configured name, or no
\* event listed in the window has a title starting with the prefix, it
\* returns false having issued no delete and no patch call, and the events
\* of the calendar are as they were.
C20_AbsentTargetIsFalse ==
    /\ recon.stage # "none" => ~recon.threw
    /\ ( /\ recon.stage \notin {"none", "new"}
         /\ CalendarName \notin recon.calendars \/ NoMatchingEvent )
       => /\ recon.calls = <<>> /\ ~recon.ret
          /\ recon.events = recon.events0 /\ recon.deleted = {}
          /\ recon.stage \in {"events", "done"}
          /\ (CalendarName \notin recon.calendars) => recon.stage = "done"

\* the calendar exists next to one with a longer name; its only event in
\* the window carries the prefix in the middle of its title, an event with
\* the prefix lies outside the window: the call returned false, no call made
C20_Witness ==
    /\ recon.stage = "done" /\ ~recon.ret /\ recon.calls = <<>>
    /\ recon.calendars = {<<"Bills">>, <<"Bills", "Old">>}
    /\ Len(recon.events0) = 2
    /\ recon.events0[1] = [summary |-> <<"Old", "Pay", "Amex">>, untitled |-> FALSE,
                           inWindow |-> TRUE, details |-> "due 1st"]
    /\ recon.events0[2] = [summary |-> <<"Pay", "Amex">>, untitled |-> FALSE,
                           inWindow |-> FALSE, details |-> "due 1st"]

\* the events the window lists whose title begins with the prefix
MatchingEvents ==
    {k \in 1..Len(recon.events0) :
        recon.events0[k].inWindow /\ TitleBeginsWith(recon.events0[k], recon.prefix)}

\* C21: a processCalendarEvents call with action delete that returned true
\* has issued exactly one delete for every event the window lists whose title
\* starts with the prefix, however many there are, and no call for any other
\* event; the reconciler never adds an event to the calendar and issues no
\* call other than a delete or a patch.
C21_DeletesEveryMatch ==
    /\ Len(recon.events) = Len(recon.events0)
    /\ \A c \in 1..Len(recon.calls) : recon.calls[c][1] \in {"delete", "patch"}
    /\ (recon.stage = "done" /\ recon.action = "delete" /\ recon.ret)
       => /\ {recon.calls[c] : c \in 1..Len(recon.calls)}
                = {<<"delete", k>> : k \in MatchingEvents}
          /\ Len(recon.calls) = Cardinality(MatchingEvents)
          /\ recon.deleted = MatchingEvents

\* two events of the window carry the prefix, one of them with a longer
\* title: the delete call returned true after deleting both
C21_Witness ==
    /\ recon.stage = "done" /\ recon.action = "delete" /\ recon.ret
    /\ Len(recon.events0) = 2
    /\ recon.events0[1].summary = <<"Pay", "Amex">>
    /\ recon.events0[2].summary = <<"Pay", "Amex", "Card">>
    /\ recon.deleted = {1, 2}
    /\ recon.calls = << <<"delete", 1>>, <<"delete", 2>> >>

\* C22: a processCalendarEvents call with action patch changes only the title
\* of each matching event, setting it to the effect's title; every other
\* field of those events and every non-matching event stay as they were, and
\* no event is deleted. After a call that returned true every matching event
\* carries the effect's title.
C22_PatchChangesOnlyTitle ==
    recon.action = "patch" /\ recon.stage # "none"
    => /\ recon.deleted = {}
       /\ Len(recon.events) = Len(recon.events0)
       /\ \A k \in 1..Len(recon.events0) :
             /\ k \notin MatchingEvents => recon.events[k] = recon.events0[k]
             /\ \A f \in DOMAIN recon.events0[k] \ {"summary"} :
                   recon.events[k][f] = recon.events0[k][f]
             /\ recon.events[k].summary \in {recon.events0[k].summary, recon.title}
             /\ (recon.stage = "done" /\ recon.ret /\ k \in MatchingEvents)
                   => recon.events[k].summary = recon.title

\* a matching event due on the 15th and a non-matching event in the window:
\* the patch call returned true, the first event has the new title and its
\* old details, the second is as it was
C22_Witness ==
    /\ recon.stage = "done" /\ recon.action = "patch" /\ recon.ret
    /\ Len(recon.events0) = 2
    /\ recon.events0[1] = [summary |-> <<"Pay", "Amex", "Card">>, untitled |-> FALSE,
                           inWindow |-> TRUE, details |-> "due 15th"]
    /\ recon.events0[2].summary = <<"Old", "Pay", "Amex">> /\ recon.events0[2].inWindow
    /\ recon.events[1] = [recon.events0[1] EXCEPT !.summary = PatchTitle]
    /\ recon.events[2] = recon.events0[2]
    /\ recon.calls = << <<"patch", 1>> >>

\* the month that lies off months after the month of n
MonthAfter(n, off) ==
    IF n.month + off <= 11 THEN [year |-> n.year, month |-> n.month + off]
    ELSE [year |-> n.year + 1, month |-> n.month + off - 12]

\* C23: the window processCalendarEvents lists begins at 00:00:00 of the
\* first day and ends at 23:59:59 of the last day of the month that lies
\* monthOffset months after the current month, for monthOffset 0 and 1 and
\* every current day, a December rolling over into January of the next year
\* and a February ending on the 28th or the 29th as its year has it.
C23_WindowIsTheShiftedMonth ==
    win.stage = "done"
    => LET target == MonthAfter(win.now, win.monthOffset)
           first == Civil(win.timeMin.day)
           last == Civil(win.timeMax.day)
       IN /\ first = [year |-> target.year, month |-> target.month, date |-> 1]
          /\ win.timeMin.sec = 0
          /\ last.year = target.year /\ last.month = target.month
          /\ Civil(win.timeMax.day + 1).date = 1
          /\ win.timeMax.sec = 24 * 3600 - 1

\* on 31 December 2023 with monthOffset 1 the window is January 2024, from
\* the 1st to the 31st
C23_Witness ==
    /\ win.stage = "done" /\ win.monthOffset = 1
    /\ win.now = [year |-> 2023, month |-> 11, date |-> 31]
    /\ Civil(win.timeMin.day) = [year |-> 2024, month |-> 0, date |-> 1]
    /\ Civil(win.timeMax.day) = [year |-> 2024, month |-> 0, date |-> 31]

\* the folders of Drive d that are not in the trash, carry the name and lie
\* directly under the parent
LiveFoldersNamed(d, name, parent) ==
    {id \in 1..Len(d) : d[id] = Folder(name, parent, FALSE)}

\* the files of Drive d that are not in the trash, carry the name and lie
\* directly under the parent
LiveFilesNamed(d, name, parent) ==
    {id \in 1..Len(d) :
        /\ ~d[id].folder /\ ~d[id].trashed
        /\ d[id].name = name /\ d[id].parent = parent}

\* the last uploadToDrive call has returned normally
LastUploadReturned ==
    /\ drive.stage = "run" /\ drive.pc = "idle"
    /\ drive.results # <<>> /\ drive.results[Len(drive.results)] = "ok"

\* C24: whatever sequence of uploadToDrive calls with the same path has run,
\* failed ones included, each level of the path exists at most once under
\* its parent, a level that existed keeps its identifier, no item that
\* existed is changed by the folder resolution, and once a call has
\* returned normally each level exists exactly once.
C24_FolderPathIdempotent ==
    drive.stage = "run"
    => LET houses == LiveFoldersNamed(drive.items, folders[1], Root)
       IN /\ Cardinality(houses) <= 1
          /\ LiveFoldersNamed(drive.items0, folders[1], Root) \subseteq houses
          /\ \A h \in houses :
                /\ Cardinality(LiveFoldersNamed(drive.items, folders[2], h)) <= 1
                /\ LiveFoldersNamed(drive.items0, folders[2], h)
                      \subseteq LiveFoldersNamed(drive.items, folders[2], h)
          /\ \A id \in 1..Len(drive.items0) :
                drive.items0[id].folder => drive.items[id] = drive.items0[id]
          /\ (\E c \in 1..Len(drive.results) : drive.results[c] = "ok")
             => /\ Cardinality(houses) = 1
                /\ \A h \in houses :
                      Cardinality(LiveFoldersNamed(drive.items, folders[2], h)) = 1

\* on an empty Drive the first call created the first folder and failed,
\* the retry found that folder, created the second and uploaded the file
C24_Witness ==
    /\ drive.stage = "run" /\ drive.items0 = <<>>
    /\ drive.results = <<"threw", "ok">>
    /\ drive.before = <<Folder(folders[1], Root, FALSE)>>
    /\ drive.items = <<Folder(folders[1], Root, FALSE), Folder(folders[2], 1, FALSE),
                       File(fileName, 2, FALSE, 2)>>

\* C25: an uploadToDrive call that returned normally has, when the leaf
\* folder held a file of that name outside the trash, given that file the
\* new content under its identifier and added no item; otherwise it has
\* added exactly one file, of that name, in the leaf folder, with the new
\* content; it changed nothing else. The leaf folder never holds two files
\* of that name, so a second upload leaves one file.
C25_UpdateElseCreateOne ==
    /\ drive.stage = "run" =>
          \A leaf \in 1..Len(drive.items) :
              Cardinality(LiveFilesNamed(drive.items, fileName, leaf)) <= 1
    /\ LastUploadReturned
       => \E house \in LiveFoldersNamed(drive.items, folders[1], Root) :
          \E leaf \in LiveFoldersNamed(drive.items, folders[2], house) :
            LET old == LiveFilesNamed(drive.before, fileName, leaf)
                new == {id \in (Len(drive.before) + 1)..Len(drive.items) :
                           ~drive.items[id].folder}
                content == Len(drive.results)
            IN IF old # {}
               THEN /\ drive.items = [drive.before EXCEPT ![drive.fileId].content = content]
                    /\ drive.fileId \in old
               ELSE /\ Cardinality(new) = 1
                    /\ \A id \in new : drive.items[id] = File(fileName, leaf, FALSE, content)
                    /\ \A id \in 1..Len(drive.before) : drive.items[id] = drive.before[id]

\* on an empty Drive the first call created the folders and the file, the
\* second call gave the same file the second content: one file, id 3
C25_Witness ==
    /\ LastUploadReturned /\ drive.items0 = <<>>
    /\ drive.results = <<"ok", "ok">>
    /\ drive.fileId = 3
    /\ drive.before = <<Folder(folders[1], Root, FALSE), Folder(folders[2], 1, FALSE),
                        File(fileName, 2, FALSE, 1)>>
    /\ drive.items = <<Folder(folders[1], Root, FALSE), Folder(folders[2], 1, FALSE),
                       File(fileName, 2, FALSE, 2)>>

\* invocation i handles a notification whose payload named a mailbox
Notified(i) == inv[i].pc # "idle" /\ inv[i].payload = "ok"

\* C26: notifications for different mailboxes are independent: what the
\* handling of a notification for one mailbox processes does not depend on
\* the handling of a notification for another mailbox, so it never skips a
\* message as a duplicate because the other handling claimed it, and the
\* two never claim messages out of the same history.
C26_MailboxesIndependent ==
    \A i, j \in Invs :
        (Notified(i) /\ Notified(j) /\ inv[i].email # inv[j].email)
        => /\ inv[i].dups \cap inv[j].claimed = {}
           /\ Range(inv[i].listed) \cap Range(inv[j].listed) = {}

\* C27: a message whose sender contains nationalgridus.com and whose subject
\* contains "bill is ready" is handled by the National Grid rule: the rule
\* is entered, and when the bill was fetched the upload to Drive is made and
\* the message counts as handled.
C27_NationalGridBillIsReady ==
    ( /\ txn.stage = "done"
      /\ Contains(txn.from, "nationalgridus.com")
      /\ Contains(txn.subject, "bill is ready") )
    => /\ txn.result.rule = "nationalgrid"
       /\ txn.result.upload

\* the month a date part names, read off the text as a person reads it
\* (0: no month)
MonthOfPart(part) ==
    IF part.slash THEN Num(part.month)
    ELSE CASE part.word = "Jan" -> 1 [] part.word = "Nov" -> 11
           [] part.word \in {"Dec", "DEC"} -> 12 [] OTHER -> 0

TwoDigits(n) == <<n \div 10, n % 10>>

\* C28: extractBillDetailsFromPdf returns null when the billing-period or
\* the due-date pattern is not in the text or the text could not be read;
\* otherwise, for a billing period that ends in a month of the calendar, it
\* returns year-month-day with month and day of the end of the billing
\* period in two digits each and the year of the due date, less one exactly
\* when the end month is greater than the month of the due date.
C28_BillingEndDate ==
    (pdf.stage = "run" /\ pdf.pc = "returned")
    => LET t == pdf.text
       IN IF ~pdf.textRead \/ ~t.billing.found \/ ~t.due.found
          THEN pdf.result = Null
          ELSE LET m == MonthOfPart(t.billing.end)
                   d == Num(t.billing.end.day)
                   y == Num(t.due.year) - (IF m > Num(t.due.month) THEN 1 ELSE 0)
               IN m \in 1..12
                  => pdf.result = [null |-> FALSE, year |-> Dec(y),
                                   month |-> TwoDigits(m), day |-> TwoDigits(d)]

\* "Billing Period: Nov 15 - DEC 31 ... Due Date: 01/15/2024" gives
\* 2023-12-31
C28_Witness ==
    /\ pdf.stage = "run" /\ pdf.pc = "returned"
    /\ pdf.text.billing = [found |-> TRUE, start |-> NamePart("Nov", <<1, 5>>),
                           end |-> NamePart("DEC", <<3, 1>>)]
    /\ pdf.text.due = [found |-> TRUE, month |-> <<0, 1>>, day |-> <<1, 5>>,
                       year |-> <<2, 0, 2, 4>>]
    /\ pdf.result = [null |-> FALSE, year |-> <<2, 0, 2, 3>>, month |-> <<1, 2>>,
                     day |-> <<3, 1>>]

\* C29: every extractBillDetailsFromPdf call that created a parser calls
\* destroy on it exactly once, after its last use and before the call
\* returns, whether a date was built, a pattern was missing or the
\* extraction failed; a call that created none calls no destroy.
C29_ParserDestroyedBeforeReturn ==
    (pdf.stage = "run" /\ pdf.pc \in {"returned", "threw"})
    => LET ev == pdf.events
           created == \E k \in 1..Len(ev) : ev[k] = "new"
           destroys == {k \in 1..Len(ev) : ev[k] = "destroy"}
       IN /\ created => Cardinality(destroys) = 1
          /\ ~created => destroys = {}
          /\ \A k \in destroys :
                /\ \A j \in 1..Len(ev) : ev[j] \in {"new", "getText"} => j < k
                /\ \A j \in 1..Len(ev) : ev[j] = "return" => k < j
          /\ (pdf.pc = "returned" /\ created) => pdf.parser = "destroyed"

\* the text could not be read: the call returned null after destroying the
\* parser it had created
C29_Witness ==
    /\ pdf.stage = "run" /\ pdf.pc = "returned" /\ pdf.path = "error"
    /\ ~pdf.textRead /\ pdf.result = Null
    /\ pdf.events = <<"new", "getText", "destroy", "return">>

\* some part of the list, at any depth, is a PDF with an attachment id
RECURSIVE HasPdfAttachment(_)
HasPdfAttachment(parts) ==
    \E k \in 1..Len(parts) :
        \/ parts[k].mimeType = "application/pdf" /\ parts[k].attachmentId # 0
        \/ HasPdfAttachment(parts[k].parts)

\* getBillFromMessage has ended, by a return or by an error
BillCallEnded == getBill.stage = "run" /\ getBill.pc \in {"rule", "done"}

\* the date the file is to be named after when the PDF gave none
HeaderDate(h) ==
    IF h.kind = "absent" THEN DateString(Today.year, Today.month, Today.date)
    ELSE toISODate(h)

\* C30 as stated: without a PDF attachment part getBillFromMessage returns
\* null and the Sunrun rule uploads nothing and returns false; with one it
\* always returns an artifact named Sunrun_Bill_<date>.pdf.
C30_AlwaysAnArtifact ==
    BillCallEnded
    => IF ~HasPdfAttachment(getBill.parts)
       THEN getBill.result = Null /\ ~getBill.threw
       ELSE ~getBill.threw /\ getBill.result # Null

\* C30, amended: without a PDF attachment part getBillFromMessage returns
\* null having downloaded nothing, and the Sunrun rule uploads nothing and
\* returns false. With one it downloads that attachment and, when the
\* download succeeded, returns an artifact named Sunrun_Bill_<date>.pdf
\* whose date is the date extracted from the PDF or, when the extraction
\* threw or gave null, the UTC date of the Date header (today's date when
\* the message has no Date header); when the download failed, or the
\* fallback met a Date header that is no date, it throws, and the Sunrun
\* rule uploads nothing and returns false.
C30_BillFromMessage ==
    BillCallEnded
    => LET needsHeader == getBill.extracted.kind # "date"
           fails == \/ getBill.extracted.kind = "unset"
                    \/ needsHeader /\ getBill.header.kind = "invalid"
       IN IF ~HasPdfAttachment(getBill.parts)
          THEN /\ getBill.result = Null /\ ~getBill.threw
               /\ getBill.downloads = <<>> /\ getBill.uploads = <<>> /\ ~getBill.ret
          ELSE /\ Len(getBill.downloads) = 1
               /\ IF fails
                  THEN /\ getBill.threw /\ getBill.result = Null
                       /\ getBill.uploads = <<>> /\ ~getBill.ret
                  ELSE /\ ~getBill.threw
                       /\ getBill.result.fileName =
                             BillFileName(IF needsHeader THEN HeaderDate(getBill.header)
                                          ELSE getBill.extracted.value)
                       /\ getBill.result.buffer = getBill.downloads[1]
                       /\ getBill.pc = "done" => getBill.uploads = <<getBill.result.fileName>>

\* the PDF lies in a nested part, the extraction gave null and the Date
\* header says 31 December, 22:00 -0500: the file is named after 1 January
\* of the next year and uploaded
C30_Witness ==
    /\ getBill.stage = "run" /\ getBill.pc = "done" /\ getBill.ret
    /\ getBill.parts = <<Part("multipart/mixed", 0, <<TextPart, PdfPart(2)>>)>>
    /\ getBill.downloads = <<2>>
    /\ getBill.extracted = [kind |-> "null"]
    /\ getBill.header = [kind |-> "date", year |-> FirstYear, month |-> 12,
                         date |-> 31, hour |-> 22, offset |-> -5]
    /\ getBill.uploads = << BillFileName(DateString(FirstYear + 1, 1, 1)) >>

\* an invocation that found no checkpoint document and whose history list
\* call returned without an error
FirstSync(i) ==
    /\ inv[i].reads = 1 /\ inv[i].lastHistoryId = NoId
    /\ inv[i].listStatus = 200

\* C31: once an invocation that found no checkpoint record, and whose
\* history list call succeeded, is over, the mailbox has a checkpoint
\* record, and every notification handled after it reads a stored position.
C31_FirstSyncCreatesCheckpoint ==
    \A i \in Invs :
        (FirstSync(i) /\ inv[i].pc = "done") =>
            /\ checkpoint[inv[i].email] # NoId
            /\ \A j \in Invs :
                 ( /\ i \in inv[j].after /\ inv[j].email = inv[i].email
                   /\ inv[j].reads = 1 /\ inv[j].outcome # "error" )
                 => inv[j].lastHistoryId # NoId

\* C32: an invocation that found no checkpoint record calls the history
\* list with the notification's own position as the start position (what it
\* lists lies after that position); when the batch went through it calls
\* the checkpoint write, and what it writes is that same position.
C32_BootstrapStartIsTarget ==
    \A i \in Invs :
        (inv[i].reads = 1 /\ inv[i].lastHistoryId = NoId /\ inv[i].pc \notin {"idle", "read"}
            /\ inv[i].outcome # "error") =>
            /\ inv[i].startId = inv[i].newHistoryId
            /\ \A m \in Range(inv[i].listed) : PosOf(m) > Num(inv[i].newHistoryId)
            /\ (inv[i].hist = "present" /\ inv[i].pc = "done")
                  => inv[i].outcome \in {"ok", "apierror"}
            /\ inv[i].listStatus = 200 =>
                  \A k \in 1..Len(inv[i].wrote) : inv[i].wrote[k] = inv[i].newHistoryId
            /\ inv[i].outcome = "ok" => inv[i].wrote = <<inv[i].newHistoryId>>

\* a first run listed the message that arrived after its notification,
\* handled it and created the checkpoint with the notification's position
C32_Witness ==
    \E i \in Invs :
        /\ FirstSync(i) /\ inv[i].outcome = "ok"
        /\ inv[i].listed # <<>> /\ inv[i].claimed # {}
        /\ inv[i].wrote = <<inv[i].newHistoryId>>
        /\ checkpoint[inv[i].email] = inv[i].newHistoryId
        /\ inv[i].newHistoryId = Dec(HeadStart + 1)

RECURSIVE ArrivalOrder(_)
\* the message ids of a list response in arrival order: the records in the
\* order returned, the messages of a record in the order of its array
ArrivalOrder(history) ==
    IF history = <<>> THEN <<>> ELSE Head(history) \o ArrivalOrder(Tail(history))

\* the calls of the loop made so far, and the ids of its claim calls
LoopCalls == SelectSeq(batch.trace, LAMBDA c : c[1] # "set")

ClaimCalls == SelectSeq(batch.trace, LAMBDA c : c[1] = "claim")

\* place of a call within the handling of one message
CallRank(op) ==
    CASE op = "claim" -> 1 [] op = "get" -> 2 [] op = "handle" -> 3 [] OTHER -> 4

\* C33: the claim calls of the loop are made in arrival order, without a
\* gap; the calls for one message (claim, fetch, handling, mark-read) are
\* made in that order and all of them before the claim of the next message;
\* and the checkpoint write is called only after the claim of the last
\* listed message, as the last call of all.
C33_OneAtATimeInArrivalOrder ==
    batch.stage = "run" =>
        LET order == ArrivalOrder(batch.history)
            place(id) == CHOOSE p \in 1..Len(order) : order[p] = id
        IN /\ Len(ClaimCalls) <= Len(order)
           /\ \A p \in 1..Len(ClaimCalls) : ClaimCalls[p][2] = order[p]
           /\ \A p \in 1..(Len(LoopCalls) - 1) :
                LET c == LoopCalls[p]
                    d == LoopCalls[p + 1]
                IN \/ d[2] = c[2] /\ CallRank(d[1]) = CallRank(c[1]) + 1
                   \/ d[1] = "claim" /\ place(d[2]) = place(c[2]) + 1
           /\ \A p \in 1..Len(batch.trace) :
                batch.trace[p][1] = "set" =>
                    /\ p = Len(batch.trace)
                    /\ Len(ClaimCalls) = Len(order)
           /\ batch.pc \in {"done", "failed"} => batch.trace[Len(batch.trace)][1] = "set"

\* two records, the first with two messages whose ids are not in numeric
\* order: the first was fully handled, the second's fetch failed, the third
\* was a duplicate, and the write came last
C33_Witness ==
    /\ batch.stage = "run" /\ batch.pc = "done"
    /\ batch.history = << <<3, 1>>, <<2>> >>
    /\ batch.trace = << <<"claim", 3>>, <<"get", 3>>, <<"handle", 3>>, <<"mark", 3>>,
                        <<"claim", 1>>, <<"get", 1>>, <<"claim", 2>>, <<"set", 0>> >>

\* the longest time Pub/Sub retains a message: 7 days, in milliseconds
MaxRetention == 7 * 86400000

\* C34: every document created in processed_messages has a ttl that lies
\* at least 7 days after its own timestamp (and at most 7 days after the
\* present reading of the clock).
C34_ExpiryOutlivesRetention ==
    dedup.stage = "run" =>
        \A id \in DedupIds :
            dedup.docs[id].exists =>
                /\ dedup.docs[id].ttl - dedup.docs[id].timestamp >= MaxRetention
                /\ dedup.docs[id].ttl <= dedup.now + MaxRetention

\* one document was created within a millisecond (exactly 7 days), the
\* other while the clock advanced between the two readings (more), and a
\* second call for it returned false
C34_Witness ==
    /\ dedup.stage = "run"
    /\ dedup.docs["m1"].exists /\ dedup.docs["m2"].exists
    /\ dedup.docs["m1"].ttl - dedup.docs["m1"].timestamp = MaxRetention
    /\ dedup.docs["m2"].ttl - dedup.docs["m2"].timestamp > MaxRetention
    /\ dedup.id = "m2" /\ dedup.returned = <<"false">>

RECURSIVE PreOrder(_)
\* the parts of a payload in depth-first pre-order: the part, then the
\* parts below its first nested part, then those below its second, ...
PreOrder(part) ==
    LET below[k \in 0..Len(part.parts)] ==
            IF k = 0 THEN <<>> ELSE below[k - 1] \o PreOrder(part.parts[k])
    IN <<part>> \o below[Len(part.parts)]

\* a text part that carries inline data
IsTextWithData(part) ==
    part.mimeType \in {"text/plain", "text/html"} /\ part.data # <<>>

\* the characters a Base64 text of Gmail stands for
Characters(data) ==
    CASE data = <<26, 6, 36>> -> <<104, 105>>          \* "hi"
      [] data = <<27, 54, 44>> -> <<111, 107>>         \* "ok"
      [] data = <<16, 16>> -> <<65>>                   \* "A"

\* C35: extractEmailBody returns the decoded data of the first part, in
\* depth-first pre-order over the payload and its nested parts, that is
\* text/plain or text/html and has inline data, and the empty string when
\* the message has no payload or no part is one.
C35_FirstTextPartDepthFirst ==
    emailBody.stage = "done" =>
        IF emailBody.message.kind # "message" THEN emailBody.returned = <<>>
        ELSE LET order == PreOrder(emailBody.message.payload)
                 hits == {k \in 1..Len(order) : IsTextWithData(order[k])}
             IN IF hits = {} THEN emailBody.returned = <<>>
                ELSE LET first == CHOOSE k \in hits : \A h \in hits : k <= h
                     IN emailBody.returned = Characters(order[first].data)

\* the payload has no data of its own; its first part is a container whose
\* first part is a PDF with inline data and whose second is the HTML text,
\* its second part is plain text: the HTML text is returned
C35_Witness ==
    /\ emailBody.stage = "done"
    /\ emailBody.message =
         [kind |-> "message",
          payload |-> BodyPart("multipart/mixed", <<>>,
                        << BodyPart("multipart/alternative", <<>>,
                              << BodyPart("application/pdf", <<16, 16>>, <<>>),
                                 BodyPart("text/html", <<27, 54, 44>>, <<>>) >>),
                           BodyPart("text/plain", <<26, 6, 36>>, <<>>) >>)]
    /\ emailBody.returned = <<111, 107>>

\* the requests caller c has sent, in order
RequestsOf(c) == SelectSeq(grid.trace, LAMBDA r : r.by = c)

\* c has sent the four requests of login one after another, in their order
LoginCompletedBy(c) ==
    LET rs == RequestsOf(c)
    IN \E p \in 1..(Len(rs) - 3) :
          /\ rs[p].req = "session" /\ rs[p + 1].req = "credentials"
          /\ rs[p + 2].req = "confirmed" /\ rs[p + 3].req = "token"

C37_StalenessIsNumeric ==
    \A i \in Invs :
        (inv[i].pc \notin {"idle", "read"} /\ inv[i].lastHistoryId # NoId) =>
            (inv[i].outcome = "stale"
                <=> Num(inv[i].newHistoryId) <= Num(inv[i].lastHistoryId))

\* C38: once two concurrent uploadToDrive calls for the same path and file
\* name have both returned, Drive holds exactly one live folder of each
\* level of the path (one 'House' in the root, one 'Sunrun Bills' in it)
\* and exactly one live file of that name in the leaf folder.
C38_ConcurrentUploadsLeaveOne ==
    (uploads.stage = "run" /\ \A u \in Uploaders : uploads.c[u].pc = "ok") =>
        LET houses == FindFolders(uploads.items, folders[1], Root)
            leaves == UNION {FindFolders(uploads.items, folders[2], h) : h \in houses}
            files == UNION {FindFiles(uploads.items, fileName, l) : l \in leaves}
        IN /\ Cardinality(houses) = 1
           /\ Cardinality(leaves) = 1
           /\ Cardinality(files) = 1

\* the messages whose claim, called by invocation i, ended in a storage
\* error (neither true nor false came back)
ClaimThrew(i) == inv[i].tried \ (inv[i].claimed \cup inv[i].dups)

\* C39: a message whose claim failed with a storage error other than
\* already-exists is not fetched by that invocation, has no mutation and no
\* mark-read call from it, and no ledger document from that call; the loop
\* goes on (every listed message is tried before the loop is left) and the
\* invocation ends by calling the checkpoint write, which writes the
\* notification's position unless the write call itself fails.
C39_ClaimErrorSkipsMessage ==
    \A i \in Invs :
        ClaimThrew(i) # {} =>
            /\ \A cr \in inv[i].creates : cr[2] = "throw" <=> cr[1] = "error"
            /\ ClaimThrew(i) \subseteq inv[i].failed
            /\ ClaimThrew(i) \cap inv[i].fetched = {}
            /\ ClaimThrew(i) \cap inv[i].muts = {}
            /\ ClaimThrew(i) \cap inv[i].marked = {}
            /\ inv[i].pc \in {"claim", "handle", "write", "done"}
            /\ inv[i].pc \in {"write", "done"} => inv[i].tried = Range(inv[i].listed)
            /\ inv[i].pc = "done" =>
                 /\ inv[i].outcome \in {"ok", "apierror"}
                 /\ inv[i].outcome = "ok" => inv[i].wrote = <<inv[i].newHistoryId>>

\* the claim of the first of two listed messages failed with a storage
\* error, the second was claimed and handled, and the checkpoint was
\* written although no ledger document exists for the first
C39_Witness ==
    \E i \in Invs, m1, m2 \in Msgs :
        /\ inv[i].listed = <<m1, m2>>
        /\ m1 \in ClaimThrew(i) /\ m1 \notin ledger
        /\ m2 \in inv[i].claimed /\ m2 \in inv[i].fetched
        /\ inv[i].outcome = "ok"
        /\ checkpoint[inv[i].email] = inv[i].newHistoryId

\* C40: an invocation whose baseline reset failed (the profile fetch or the
\* checkpoint write after a status 400) has written no checkpoint and has
\* surfaced no error, and a notification with a newer position handled
\* after it, reading the same stored position, starts its sync from that
\* position.
C40_FailedResetIsRetried ==
    \A i \in Invs :
        (inv[i].listStatus = 400 /\ inv[i].outcome = "resetfailed") =>
            /\ inv[i].wrote = <<>>
            /\ inv[i].pc = "done"
            /\ \A j \in Invs :
                 ( /\ i \in inv[j].after
                   /\ inv[j].email = inv[i].email
                   /\ inv[j].pc \notin {"idle", "read"}
                   /\ inv[j].reads = 1 /\ inv[j].outcome # "error"
                   /\ inv[i].lastHistoryId # NoId
                   /\ inv[j].lastHistoryId = inv[i].lastHistoryId
                   /\ Num(inv[j].newHistoryId) > Num(inv[i].newHistoryId) )
                 => /\ inv[j].outcome # "stale"
                    /\ inv[j].startId = inv[i].lastHistoryId

====
